---- MODULE Spec2Model ----
(***************************************************************************)
(* A model of the f5 data-access layer: the change-tracking Model record   *)
(* (src/src/models.py), the Service facade (src/src/services.py and the    *)
(* older src/f5/services.py) and the Redis cache front                     *)
(* (src/f5/storage.py).                                                    *)
(***************************************************************************)
EXTENDS Integers, Sequences, FiniteSets, TLC

VARIABLES
    model,       \* the in-memory record: [cls, fields, dirty]
    sets,        \* history: key -> value of the keyed sets since dirty was last cleared
    pure,        \* history: only keyed sets have touched the record since then
    call,        \* the last call: its operation, outcome and what it executed
    db,          \* relational store: table -> (id -> committed row)
    autoinc,     \* relational store: table -> next AUTO_INCREMENT value
    redis,       \* cache keyspace: [str: key -> string value, obj: key -> hash mapping]
    buffer,      \* Service.buffer: statement text -> the rows waiting for it
    pc,          \* set_hash callers: position of each process
    old_hash,    \* set_hash callers: the value read after WATCH
    watched,     \* set_hash callers: TRUE while the WATCH is still clean
    hash_of      \* set_hash callers: model.hash of each process's record

vars == <<model, sets, pure, call, db, autoinc, redis, buffer,
          pc, old_hash, watched, hash_of>>

(***************************************************************************)
(* Values.  Python's None is the sentinel 0; every other value is a        *)
(* positive integer.                                                       *)
(***************************************************************************)
None == 0
MaxId == 1
Values == {1, 2}
Ids == 1..MaxId
AnyValue == {None} \cup Values
AnyId == {None} \cup Ids

Range(s) == {s[i] : i \in DOMAIN s}

(***************************************************************************)
(* Three record types.  Post declares the deletion timestamp (soft         *)
(* delete); Tag does not (hard delete) and declares the modification       *)
(* timestamp; Note declares plain data columns only.                       *)
(***************************************************************************)
Classes == {"Post", "Tag", "Note"}
Stored == {"Post", "Tag"}

columns(cls) ==
    CASE cls = "Post" -> <<"id", "date_deleted">>
      [] cls = "Tag"  -> <<"id", "date_modified">>
      [] OTHER        -> <<"id", "title", "body">>

table_name(cls) ==
    CASE cls = "Post" -> "post"
      [] cls = "Tag"  -> "tag"
      [] OTHER        -> "note"

ColSet(cls) == Range(columns(cls))

\* Keys an application may use: the declared columns and one undeclared name.
Keys(cls) == ColSet(cls) \cup {"bogus"}

\* The dictionaries handed to Model.__init__ and Model.update: every partial map
\* over the keys, an id drawn from the ids and the other values from the values
\* (one value is enough for the undeclared key, which is dropped).
DictVals(k) ==
    CASE k = "id"    -> AnyId
      [] k = "bogus" -> {None}
      [] OTHER       -> AnyValue

Dicts(cls) ==
    UNION {{d \in [K -> AnyValue \cup AnyId] : \A k \in K : d[k] \in DictVals(k)} :
           K \in SUBSET Keys(cls)}

(***************************************************************************)
(* Finite maps with a growing domain (Python dicts, the Redis keyspace).   *)
(***************************************************************************)
Empty == [x \in {} |-> None]
Put(f, k, v) == [x \in (DOMAIN f) \cup {k} |-> IF x = k THEN v ELSE f[x]]
Del(f, k) == [x \in (DOMAIN f) \ {k} |-> f[x]]
Merge(f, g) == [x \in (DOMAIN f) \cup (DOMAIN g) |-> IF x \in DOMAIN g THEN g[x] ELSE f[x]]

(***************************************************************************)
(* Model (src/src/models.py).  fields is a Python dict: assigning a key    *)
(* it lacks adds the key.                                                  *)
(***************************************************************************)
Model_init(cls, fields) ==
    [cls    |-> cls,
     fields |-> Merge([k \in ColSet(cls) |-> None],
                      [k \in (DOMAIN fields) \cap ColSet(cls) |-> fields[k]]),
     dirty  |-> {}]

\* __setitem__: the KeyError cases, then the mutation
setitem_raises(m, key) == key \notin ColSet(m.cls) \/ key = "id"

Model_setitem(m, key, val) ==
    [m EXCEPT !.dirty = m.dirty \cup {key},
              !.fields = Put(m.fields, key, val)]

\* __delitem__: only the undeclared key raises
delitem_raises(m, key) == key \notin ColSet(m.cls)

Model_delitem(m, key) ==
    [m EXCEPT !.dirty = m.dirty \cup {key},
              !.fields = Put(m.fields, key, None)]

\* update: undeclared keys are dropped, the others applied and marked dirty
Mut_unsanitized_fields(m, field_dict) == field_dict

sanitized_fields(m, field_dict) ==
    [k \in (DOMAIN field_dict) \cap ColSet(m.cls) |-> field_dict[k]]

Mut_update_forgets_dirty(m, field_dict) ==
    LET s == sanitized_fields(m, field_dict) IN
    [m EXCEPT !.fields = Merge(m.fields, s), !.dirty = DOMAIN s]

Model_update(m, field_dict) ==
    LET s == sanitized_fields(m, field_dict) IN
    [m EXCEPT !.fields = Merge(m.fields, s),
              !.dirty = m.dirty \cup DOMAIN s]

is_dirty(m) == Cardinality(m.dirty) = 0

Model_id(m) == m.fields["id"]

Model_set_id(m, value) == [m EXCEPT !.fields = Put(m.fields, "id", value)]

Mut_modified_all(m) == m.fields

modified_dict(m) == [k \in m.dirty |-> m.fields[k]]

contains(m, key) == key \in DOMAIN m.fields

\* __getitem__: the KeyError case, then the value
getitem_raises(m, key) == key \notin ColSet(m.cls)

Model_getitem(m, key) == m.fields[key]

\* get(key, default): dict.get on fields; without a default a missing key
\* answers None
Model_get(m, key, has_default, default) ==
    IF key \in DOMAIN m.fields THEN m.fields[key]
    ELSE IF has_default THEN default ELSE None

(***************************************************************************)
(* Redis (src/f5/storage.py).  A GET of a missing key answers nil, which   *)
(* Python tests as false, like the empty string.                           *)
(***************************************************************************)
Nil == ""
Hashes == {"h1", "h2"}

IdStr(id) == IF id = None THEN "None" ELSE ToString(id)

\* build_key(model): the model branch, '{0.table_name}:{0.id}'
build_key(m) == table_name(m.cls) \o ":" \o IdStr(Model_id(m))

\* build_key(namespace, id): the string branches
build_key_ns(namespace, id) ==
    IF id # None THEN namespace \o ":" \o IdStr(id) ELSE namespace

hash_key_of(obj_key) == obj_key \o ":hash"

redis_get(r, k) == IF k \in DOMAIN r.str THEN r.str[k] ELSE Nil
redis_set(r, k, v) == [str |-> Put(r.str, k, v), obj |-> Del(r.obj, k)]
redis_delete(r, k) == [str |-> Del(r.str, k), obj |-> Del(r.obj, k)]
redis_hmset(r, k, mapping) ==
    [r EXCEPT !.obj = Put(r.obj, k,
                          IF k \in DOMAIN r.obj THEN Merge(r.obj[k], mapping) ELSE mapping)]
redis_hgetall(r, k) == IF k \in DOMAIN r.obj THEN r.obj[k] ELSE Empty

\* The MULTI block of set_hash, as EXEC applies it
set_hash_exec(r, hash_key, old, model_hash, obj_key) ==
    LET r1 == IF old # Nil THEN redis_delete(r, old) ELSE r
        r2 == redis_set(r1, hash_key, model_hash)
    IN  redis_set(r2, model_hash, obj_key)

\* set_hash run by a single caller: WATCH, GET, MULTI ... EXEC with no conflict
set_hash(r, m, model_hash) ==
    LET obj_key == build_key(m)
        hash_key == hash_key_of(obj_key)
    IN  set_hash_exec(r, hash_key, redis_get(r, hash_key), model_hash, obj_key)

\* The MULTI block of delete_hash
Mut_delete_hash_key_only(r, hash_key, old) == redis_delete(r, hash_key)

delete_hash_exec(r, hash_key, old) ==
    LET r1 == IF old # Nil THEN redis_delete(r, old) ELSE r
    IN  redis_delete(r1, hash_key)

delete_hash(r, m) ==
    LET hash_key == hash_key_of(build_key(m))
    IN  delete_hash_exec(r, hash_key, redis_get(r, hash_key))

\* MessagePackEncoder: the byte encoding of one field value
encode(val) == <<"msgpack", val>>
decode(bytes) == bytes[2]

set_object(r, m) ==
    LET key == build_key(m)
        mapitems == [k \in (DOMAIN m.fields) \ {"id"} |-> m.fields[k]]
        mapping == [k \in DOMAIN mapitems |-> encode(mapitems[k])]
    IN  redis_hmset(r, key, mapping)

delete_object(r, m) == redis_delete(r, build_key(m))

(***************************************************************************)
(* The relational store behind the Database context manager                *)
(* (src/f5/storage.py): one table per record type, an AUTO_INCREMENT id,   *)
(* statements committed one by one.                                        *)
(***************************************************************************)
Tables == {table_name(c) : c \in Stored}

stmt(kind, table, data, where) ==
    [kind |-> kind, table |-> table, data |-> data, where |-> where]

\* The id the store gives an inserted row: the next AUTO_INCREMENT value when
\* the id column is bound to NULL, the bound value otherwise.
insert_id(auto, table, data) ==
    IF data["id"] = None THEN auto[table] ELSE data["id"]

db_insert(d, table, rowid, data) ==
    [d EXCEPT ![table] = Put(@, rowid, [data EXCEPT !["id"] = rowid])]

next_auto(auto, table, rowid) ==
    [auto EXCEPT ![table] = IF rowid >= @ THEN rowid + 1 ELSE @]

\* UPDATE t SET k = v, ... WHERE id = the_id
db_update(d, table, the_id, modified) ==
    IF the_id \in DOMAIN d[table]
    THEN [d EXCEPT ![table][the_id] =
            [k \in DOMAIN @ |-> IF k \in DOMAIN modified THEN modified[k] ELSE @[k]]]
    ELSE d

db_delete(d, table, the_id) == [d EXCEPT ![table] = Del(@, the_id)]

\* SELECT * FROM t WHERE id = the_id AND date_deleted IS NULL LIMIT 1
db_select_live(d, table, the_id) ==
    IF the_id \in DOMAIN d[table] /\ d[table][the_id]["date_deleted"] = None
    THEN d[table][the_id] ELSE Empty

(***************************************************************************)
(* Service (src/src/services.py).  Each operation maps a world             *)
(*   [model, db, autoinc, redis, stmts, cache, result, lastrowid]          *)
(* to the world it leaves; `fail` is what the store does to this call:     *)
(* "no" (it works), "connect" (MySQLdb.connect raises) or "execute"        *)
(* (cursor.execute raises).                                                *)
(***************************************************************************)
Fails == {"no", "connect", "execute"}

\* datetime.now(): a reading of the clock, never None
Clock == {2}

W_setitem(w, key, val) == [w EXCEPT !.model = Model_setitem(w.model, key, val)]

Mut_keep_dirty(w) == w

\* model.dirty = set()
W_clear_dirty(w) == [w EXCEPT !.model = [w.model EXCEPT !.dirty = {}]]

W_cache(w, h) ==
    [w EXCEPT !.redis = set_object(set_hash(w.redis, w.model, h), w.model),
              !.cache = w.cache \o <<"set_hash", "set_object">>]

\* src/src/services.py: Service.create
Service_create(w, fail, h) ==
    LET m == w.model
        data == m.fields
        table == table_name(m.cls)
        rowid == insert_id(w.autoinc, table, data)
        st == stmt("INSERT", table, data, None)
    IN  IF fail = "connect" THEN [w EXCEPT !.result = "OperationalError"]
        ELSE IF fail = "execute" \/ rowid \in DOMAIN w.db[table]
        THEN [w EXCEPT !.result = "DatabaseError", !.stmts = Append(w.stmts, st)]
        ELSE LET w1 == [w EXCEPT !.stmts = Append(w.stmts, st),
                                 !.db = db_insert(w.db, table, rowid, data),
                                 !.autoinc = next_auto(w.autoinc, table, rowid),
                                 !.lastrowid = rowid,
                                 !.model = Model_set_id(m, rowid)]
             IN  W_cache(W_clear_dirty(w1), h)

\* src/f5/services.py: Service.create
F5_Service_create(w, fail) ==
    LET m == w.model
        data == m.fields
        table == table_name(m.cls)
        rowid == insert_id(w.autoinc, table, data)
        st == stmt("INSERT", table, data, None)
    IN  IF fail = "connect" THEN [w EXCEPT !.result = "OperationalError"]
        ELSE IF fail = "execute" \/ rowid \in DOMAIN w.db[table]
        THEN [w EXCEPT !.result = "DatabaseError", !.stmts = Append(w.stmts, st)]
        ELSE [w EXCEPT !.stmts = Append(w.stmts, st),
                       !.db = db_insert(w.db, table, rowid, data),
                       !.autoinc = next_auto(w.autoinc, table, rowid),
                       !.lastrowid = rowid,
                       !.model = Model_set_id(m, rowid)]

\* Service.update past its early return
update_dirty(w, set_date_modified, refresh, now, fail, h) ==
    LET w0 == IF set_date_modified /\ contains(w.model, "date_modified")
              THEN W_setitem(w, "date_modified", now) ELSE w
        m == w0.model
        modified == modified_dict(m)
        table == table_name(m.cls)
        upd == stmt("UPDATE", table, modified, Model_id(m))
        sel == stmt("SELECT", table, Empty, Model_id(m))
    IN  IF fail = "connect" THEN [w0 EXCEPT !.result = "OperationalError"]
        ELSE IF fail = "execute"
        THEN [w0 EXCEPT !.result = "DatabaseError", !.stmts = Append(w0.stmts, upd)]
        ELSE LET w1 == [w0 EXCEPT !.stmts = Append(w0.stmts, upd),
                                  !.db = db_update(w0.db, table, Model_id(m), modified)]
             IN  IF ~refresh THEN W_cache(W_clear_dirty(w1), h)
                 ELSE IF "date_deleted" \notin ColSet(m.cls)
                 \* the refresh SELECT names a column the table lacks
                 THEN [w1 EXCEPT !.result = "DatabaseError",
                                 !.stmts = Append(w1.stmts, sel)]
                 ELSE LET result == db_select_live(w1.db, table, Model_id(m))
                          w2 == [w1 EXCEPT
                                   !.stmts = Append(w1.stmts, sel),
                                   !.model = IF result # Empty
                                             THEN Model_update(m, result)
                                             ELSE Model_set_id(m, None)]
                      IN  W_cache(W_clear_dirty(w2), h)

Mut_update_no_early_return(w, set_date_modified, refresh, now, fail, h) ==
    update_dirty(w, set_date_modified, refresh, now, fail, h)

Mut_update_clears_first(w, set_date_modified, refresh, now, fail, h) ==
    update_dirty(W_clear_dirty(w), set_date_modified, refresh, now, fail, h)

\* src/src/services.py: Service.update
Service_update(w, set_date_modified, refresh, now, fail, h) ==
    IF Cardinality(w.model.dirty) = 0 THEN w
    ELSE update_dirty(w, set_date_modified, refresh, now, fail, h)

\* src/src/services.py: Service.delete
Service_delete(w, now, fail, h) ==
    LET uncache(x) ==
            [x EXCEPT !.redis = delete_object(delete_hash(x.redis, x.model), x.model),
                      !.cache = x.cache \o <<"delete_hash", "delete_object">>]
        m == w.model
        table == table_name(m.cls)
        del == stmt("DELETE", table, Empty, Model_id(m))
    IN  IF contains(m, "date_deleted")
        THEN LET w1 == Service_update(W_setitem(w, "date_deleted", now),
                                      TRUE, FALSE, now, fail, h)
             IN  IF w1.result # "ok" THEN w1 ELSE uncache(w1)
        ELSE IF fail = "connect" THEN [w EXCEPT !.result = "OperationalError"]
        ELSE IF fail = "execute"
        THEN [w EXCEPT !.result = "DatabaseError", !.stmts = Append(w.stmts, del)]
        ELSE uncache([w EXCEPT !.stmts = Append(w.stmts, del),
                               !.db = db_delete(w.db, table, Model_id(m)),
                               !.model = Model_set_id(m, None)])

(***************************************************************************)
(* The application: one record, constructed from any dictionary and then   *)
(* driven through the Model mutators and the Service operations, one call  *)
(* per step.                                                               *)
(***************************************************************************)
Procs == {"p1", "p2"}

NoCall(op) ==
    [op |-> op, result |-> "ok", stmts |-> <<>>, cache |-> <<>>,
     old_id |-> None, lastrowid |-> None, arg |-> None, value |-> None]

IdleModel == model = Model_init("Note", Empty) /\ sets = Empty /\ pure = TRUE

IdleStore ==
    /\ db = [t \in Tables |-> Empty]
    /\ autoinc = [t \in Tables |-> 1]
    /\ buffer = Empty

IdleHash ==
    /\ pc = [p \in Procs |-> "idle"]
    /\ old_hash = [p \in Procs |-> Nil]
    /\ watched = [p \in Procs |-> FALSE]
    /\ hash_of = [p \in Procs |-> "h1"]

Init ==
    /\ model \in UNION {{Model_init(cls, d) : d \in Dicts(cls)} : cls \in Stored}
    /\ sets = Empty
    /\ pure = TRUE
    /\ call = NoCall("init")
    /\ redis = [str |-> Empty, obj |-> Empty]
    /\ IdleStore
    /\ IdleHash

World ==
    [model |-> model, db |-> db, autoinc |-> autoinc, redis |-> redis,
     stmts |-> <<>>, cache |-> <<>>, result |-> "ok", lastrowid |-> None]

\* The world a call leaves becomes the state; `call` records the call.
Returns(op, w) ==
    /\ model' = w.model
    /\ db' = w.db
    /\ autoinc' = w.autoinc
    /\ redis' = w.redis
    /\ call' = [op |-> op, result |-> w.result, stmts |-> w.stmts, cache |-> w.cache,
                old_id |-> Model_id(model), lastrowid |-> w.lastrowid,
                arg |-> None, value |-> None]
    /\ UNCHANGED <<sets, pure, buffer, pc, old_hash, watched, hash_of>>

Raises(op, error) == Returns(op, [World EXCEPT !.result = error])

SetItem(key, val) ==
    IF setitem_raises(model, key) THEN Raises("setitem", "KeyError")
    ELSE Returns("setitem", W_setitem(World, key, val))

DelItem(key) ==
    IF delitem_raises(model, key) THEN Raises("delitem", "KeyError")
    ELSE Returns("delitem", [World EXCEPT !.model = Model_delitem(model, key)])

BulkUpdate(field_dict) ==
    Returns("bulk_update", [World EXCEPT !.model = Model_update(model, field_dict)])

\* the store has an AUTO_INCREMENT value left to give
CanInsert == insert_id(autoinc, table_name(model.cls), model.fields) <= MaxId

Create(fail, h) ==
    /\ CanInsert
    /\ Returns("create", Service_create(World, fail, h))

F5Create(fail) ==
    /\ CanInsert
    /\ Returns("f5_create", F5_Service_create(World, fail))

Update(set_date_modified, refresh, now, fail, h) ==
    Returns("update", Service_update(World, set_date_modified, refresh, now, fail, h))

Delete(now, fail, h) ==
    Returns("delete", Service_delete(World, now, fail, h))

Next ==
    \/ \E key \in Keys(model.cls) : \E val \in AnyValue : SetItem(key, val)
    \/ \E key \in Keys(model.cls) : DelItem(key)
    \/ \E field_dict \in Dicts(model.cls) : BulkUpdate(field_dict)
    \/ \E fail \in Fails : \E h \in Hashes : Create(fail, h)
    \/ \E fail \in Fails : F5Create(fail)
    \/ \E sdm \in BOOLEAN : \E refresh \in BOOLEAN : \E now \in Clock :
         \E fail \in Fails : \E h \in Hashes : Update(sdm, refresh, now, fail, h)
    \/ \E now \in Clock : \E fail \in Fails : \E h \in Hashes : Delete(now, fail, h)

Spec == Init /\ [][Next]_vars

(***************************************************************************)
(* Service.update against any world the application can have built: a      *)
(* record in any state of its fields and dirty set, the store empty or     *)
(* holding a row of the record's table, the cache empty or holding the     *)
(* entries a create of such a row has written.                             *)
(***************************************************************************)
FieldMaps(cls) ==
    {f \in [ColSet(cls) -> AnyValue \cup AnyId] : \A k \in ColSet(cls) : f[k] \in DictVals(k)}

Rows(cls) == {f \in FieldMaps(cls) : f["id"] # None}

Saved(cls, row) == [cls |-> cls, fields |-> row, dirty |-> {}]

InitUpdate ==
    /\ model \in UNION {{[cls |-> cls, fields |-> f, dirty |-> d] :
                           f \in FieldMaps(cls), d \in SUBSET ColSet(cls)} : cls \in Stored}
    /\ sets = Empty
    /\ pure = TRUE
    /\ call = NoCall("init")
    /\ db \in {[t \in Tables |-> Empty]} \cup
              {[t \in Tables |-> IF t = table_name(model.cls)
                                 THEN Put(Empty, row["id"], row) ELSE Empty] :
                 row \in Rows(model.cls)}
    /\ autoinc = [t \in Tables |-> IF db[t] = Empty THEN 1 ELSE MaxId + 1]
    /\ redis \in {[str |-> Empty, obj |-> Empty]} \cup
                 {W_cache([redis |-> [str |-> Empty, obj |-> Empty], cache |-> <<>>,
                           model |-> Saved(model.cls, row)], h).redis :
                    row \in Rows(model.cls), h \in Hashes}
    /\ buffer = Empty
    /\ IdleHash

NextUpdate ==
    \/ \E key \in Keys(model.cls) : \E val \in AnyValue : SetItem(key, val)
    \/ \E sdm \in BOOLEAN : \E refresh \in BOOLEAN : \E now \in Clock :
         \E fail \in Fails : \E h \in Hashes : Update(sdm, refresh, now, fail, h)

SpecUpdate == InitUpdate /\ [][NextUpdate]_vars

(***************************************************************************)
(* The record alone: every Model mutator, the id setter, and the           *)
(* `model.dirty = set()` by which the Service marks a record clean.  The   *)
(* history variables remember the keyed sets made since the record was     *)
(* last clean.                                                             *)
(***************************************************************************)
InitModel ==
    /\ \E cls \in Classes : \E d \in Dicts(cls) :
         /\ model = Model_init(cls, d)
         /\ call = [NoCall("init") EXCEPT !.arg = d]
    /\ sets = Empty
    /\ pure = TRUE
    /\ redis = [str |-> Empty, obj |-> Empty]
    /\ IdleStore
    /\ IdleHash

ModelStep(op, result, m, s, p) ==
    /\ model' = m
    /\ sets' = s
    /\ pure' = p
    /\ call' = [NoCall(op) EXCEPT !.result = result, !.old_id = Model_id(model)]
    /\ UNCHANGED <<db, autoinc, redis, buffer, pc, old_hash, watched, hash_of>>

\* the same, for a keyed call: the call remembers its key
KeyedStep(op, key, result, m, s, p) ==
    /\ model' = m
    /\ sets' = s
    /\ pure' = p
    /\ call' = [NoCall(op) EXCEPT !.result = result, !.arg = key,
                                  !.old_id = Model_id(model)]
    /\ UNCHANGED <<db, autoinc, redis, buffer, pc, old_hash, watched, hash_of>>

M_New(cls, fields) == KeyedStep("init", fields, "ok", Model_init(cls, fields), Empty, TRUE)

M_SetItem(key, val) ==
    IF setitem_raises(model, key)
    THEN KeyedStep("setitem", key, "KeyError", model, sets, pure)
    ELSE KeyedStep("setitem", key, "ok", Model_setitem(model, key, val), Put(sets, key, val), pure)

M_DelItem(key) ==
    IF delitem_raises(model, key)
    THEN KeyedStep("delitem", key, "KeyError", model, sets, pure)
    ELSE KeyedStep("delitem", key, "ok", Model_delitem(model, key), sets, FALSE)

M_BulkUpdate(field_dict) ==
    ModelStep("bulk_update", "ok", Model_update(model, field_dict), sets, FALSE)

M_SetId(value) == ModelStep("set_id", "ok", Model_set_id(model, value), sets, pure)

\* a read: the record is left alone, the call remembers its key and its answer
ModelRead(op, key, result, value) ==
    /\ call' = [NoCall(op) EXCEPT !.result = result, !.arg = key, !.value = value,
                                  !.old_id = Model_id(model)]
    /\ UNCHANGED <<model, sets, pure, db, autoinc, redis, buffer,
                   pc, old_hash, watched, hash_of>>

M_GetItem(key) ==
    IF getitem_raises(model, key) THEN ModelRead("getitem", key, "KeyError", None)
    ELSE ModelRead("getitem", key, "ok", Model_getitem(model, key))

M_Get(key, has_default, default) ==
    ModelRead("get", key, "ok", Model_get(model, key, has_default, default))

M_MarkClean == ModelStep("mark_clean", "ok", W_clear_dirty([model |-> model]).model, Empty, TRUE)

NextModel ==
    \/ \E cls \in Classes : \E fields \in Dicts(cls) : M_New(cls, fields)
    \/ \E key \in Keys(model.cls) : \E val \in AnyValue : M_SetItem(key, val)
    \/ \E key \in Keys(model.cls) : M_DelItem(key)
    \/ \E field_dict \in Dicts(model.cls) : M_BulkUpdate(field_dict)
    \/ \E value \in AnyId : M_SetId(value)
    \/ M_MarkClean
    \/ \E key \in Keys(model.cls) : M_GetItem(key)
    \/ \E key \in Keys(model.cls) : \E has_default \in BOOLEAN : \E default \in Values :
         M_Get(key, has_default, default)

SpecModel == InitModel /\ [][NextModel]_vars

(***************************************************************************)
(* Redis.set_hash under concurrent callers (src/f5/storage.py).  Every     *)
(* process calls set_hash for the same stored record, each call with the   *)
(* content hash its copy of the record carries, and runs it one Redis      *)
(* command at a time: WATCH, GET, then MULTI ... EXEC.  EXEC applies the   *)
(* queued block atomically unless the watched key was written since the   *)
(* WATCH, in which case redis-py raises WatchError from pipe.execute().    *)
(* The handler `except WatchError` names a class the module never imports  *)
(* (it imports only `redis`), so evaluating it raises NameError, which     *)
(* leaves set_hash.                                                        *)
(***************************************************************************)
TheRecord == Saved("Post", [id |-> 1, date_deleted |-> None])
the_obj_key == build_key(TheRecord)
the_hash_key == hash_key_of(the_obj_key)

InitHash ==
    /\ IdleModel
    /\ call = NoCall("init")
    /\ IdleStore
    /\ redis \in {[str |-> Empty, obj |-> Empty]} \cup
                 {set_hash([str |-> Empty, obj |-> Empty], TheRecord, h) : h \in Hashes}
    /\ IdleHash

HashFrame == UNCHANGED <<model, sets, pure, call, db, autoinc, buffer>>

\* a caller enters set_hash(model): obj_key, hash_key and model.hash are read
SetHashCall(p, h) ==
    /\ pc[p] \in {"idle", "done", "raised"}
    /\ pc' = [pc EXCEPT ![p] = "watch"]
    /\ hash_of' = [hash_of EXCEPT ![p] = h]
    /\ old_hash' = [old_hash EXCEPT ![p] = Nil]
    /\ UNCHANGED <<redis, watched>>
    /\ HashFrame

\* pipe.watch(hash_key)
Watch(p) ==
    /\ pc[p] = "watch"
    /\ watched' = [watched EXCEPT ![p] = TRUE]
    /\ pc' = [pc EXCEPT ![p] = "get"]
    /\ UNCHANGED <<redis, old_hash, hash_of>>
    /\ HashFrame

\* old_hash = pipe.get(hash_key); the MULTI block is then queued locally
Get(p) ==
    /\ pc[p] = "get"
    /\ old_hash' = [old_hash EXCEPT ![p] = redis_get(redis, the_hash_key)]
    /\ pc' = [pc EXCEPT ![p] = "exec"]
    /\ UNCHANGED <<redis, watched, hash_of>>
    /\ HashFrame

\* where `except WatchError: continue` leaves the caller when pipe.execute()
\* raises WatchError: the handler's own NameError
on_watch_error == "raised"

\* does EXEC go through?
Mut_exec_unwatched(p) == TRUE

exec_commits(p) == watched[p]

\* the block queued after pipe.multi(): that of set_hash, or that of
\* delete_hash for a caller with no hash to set
queued_block(p) ==
    IF hash_of[p] = Nil
    THEN delete_hash_exec(redis, the_hash_key, old_hash[p])
    ELSE set_hash_exec(redis, the_hash_key, old_hash[p], hash_of[p], the_obj_key)

\* pipe.execute()
Exec(p) ==
    /\ pc[p] = "exec"
    /\ IF exec_commits(p)
       THEN /\ redis' = queued_block(p)
            \* the write to hash_key spoils every other caller's WATCH
            /\ watched' = [q \in Procs |-> FALSE]
            /\ pc' = [pc EXCEPT ![p] = "done"]
       ELSE /\ redis' = redis
            /\ watched' = [watched EXCEPT ![p] = FALSE]
            /\ pc' = [pc EXCEPT ![p] = on_watch_error]
    /\ UNCHANGED <<old_hash, hash_of>>
    /\ HashFrame

NextHash ==
    \/ \E p \in Procs : \E h \in Hashes : SetHashCall(p, h)
    \/ \E p \in Procs : Watch(p)
    \/ \E p \in Procs : Get(p)
    \/ \E p \in Procs : Exec(p)

SpecHash == InitHash /\ [][NextHash]_vars

\* Redis.delete_hash beside set_hash: a caller enters delete_hash(model); its
\* WATCH, GET and EXEC steps are those above, with no hash to set
DeleteHashCall(p) ==
    /\ pc[p] \in {"idle", "done", "raised"}
    /\ pc' = [pc EXCEPT ![p] = "watch"]
    /\ hash_of' = [hash_of EXCEPT ![p] = Nil]
    /\ old_hash' = [old_hash EXCEPT ![p] = Nil]
    /\ UNCHANGED <<redis, watched>>
    /\ HashFrame

NextHashDelete ==
    \/ \E p \in Procs : \E h \in Hashes : SetHashCall(p, h)
    \/ \E p \in Procs : DeleteHashCall(p)
    \/ \E p \in Procs : Watch(p)
    \/ \E p \in Procs : Get(p)
    \/ \E p \in Procs : Exec(p)

SpecHashDelete == InitHash /\ [][NextHashDelete]_vars

(***************************************************************************)
(* The write buffer: Service.batch_create, Service.batch_update and        *)
(* Service.flush (src/src/services.py).  The buffer maps the text of a     *)
(* statement to the rows waiting for it.                                   *)
(***************************************************************************)
\* MAX_BUFFER_SIZE is 1000 in Service.__init__, "can tweak this constant"; the
\* model runs the Service with it set to 2.  MaxRows caps the rows one key may
\* collect once failed flushes have left it past MAX_BUFFER_SIZE.
MAX_BUFFER_SIZE == 2
MaxRows == 3

RECURSIVE join(_, _)
join(sep, strs) ==
    IF strs = <<>> THEN ""
    ELSE IF Len(strs) = 1 THEN strs[1]
    ELSE strs[1] \o sep \o join(sep, Tail(strs))

\* The statement text of batch_create and of batch_update, per record type
\* (the layout whitespace of batch_update's template left out)
insert_text ==
    [cls \in Stored |->
       LET keys == columns(cls) IN
       "INSERT INTO " \o table_name(cls) \o " (" \o join(", ", keys) \o ") VALUES ("
         \o join(", ", [i \in DOMAIN keys |-> "%s"]) \o ")"]

upsert_text ==
    [cls \in Stored |->
       LET keys == columns(cls) IN
       insert_text[cls] \o " ON DUPLICATE KEY UPDATE "
         \o join(", ", [i \in DOMAIN keys |-> keys[i] \o "=VALUES(" \o keys[i] \o ")"])]

insert_query(cls) == insert_text[cls]
upsert_query(cls) == upsert_text[cls]

\* tuple(data[k] for k in keys)
row_tuple(m) == [i \in DOMAIN columns(m.cls) |-> m.fields[columns(m.cls)[i]]]

\* The store reading a statement back: its record type, and whether it upserts
query_class(q) == CHOOSE c \in Stored : q \in {insert_query(c), upsert_query(c)}
is_upsert(q) == q = upsert_query(query_class(q))

\* cursor.executemany(query, rows) inside the open transaction: row by row, a
\* plain INSERT of an id already there fails
RECURSIVE executemany(_, _, _, _)
executemany(t, q, rows, i) ==
    IF i > Len(rows) \/ ~t.ok THEN t
    ELSE LET cls == query_class(q)
             table == table_name(cls)
             data == [k \in ColSet(cls) |->
                        rows[i][CHOOSE j \in DOMAIN columns(cls) : columns(cls)[j] = k]]
             rowid == insert_id(t.autoinc, table, data)
         IN  IF rowid \in DOMAIN t.db[table]
             THEN IF is_upsert(q)
                  THEN executemany([t EXCEPT !.db = db_update(t.db, table, rowid, data)],
                                   q, rows, i + 1)
                  ELSE [t EXCEPT !.ok = FALSE]
             ELSE executemany([t EXCEPT !.db = db_insert(t.db, table, rowid, data),
                                        !.autoinc = next_auto(t.autoinc, table, rowid)],
                              q, rows, i + 1)

\* The loop of Service.flush over the buffer's keys, taken in `order`; the
\* store fails the fail_at-th executemany (0: it fails none of its own accord).
RECURSIVE flush_loop(_, _, _, _)
flush_loop(w, order, i, fail_at) ==
    IF i > Len(order) THEN [w EXCEPT !.buffer = Empty]
    ELSE LET query == order[i]
             rows == w.buffer[query]
             t == executemany([ok |-> TRUE, db |-> w.db, autoinc |-> w.autoinc],
                              query, rows, 1)
             done(outcome) == Append(w.stmts, [query |-> query, rows |-> rows,
                                               outcome |-> outcome])
         IN  IF i = fail_at \/ ~t.ok
             \* conn.rollback(); self.buffer = {}; raise e
             THEN [w EXCEPT !.buffer = Empty, !.result = "DatabaseError",
                            !.stmts = done("rollback")]
             \* conn.commit()
             ELSE flush_loop([w EXCEPT !.db = t.db, !.autoinc = t.autoinc,
                                       !.stmts = done("commit")],
                             order, i + 1, fail_at)

\* Service.flush
Service_flush(w, order, connect_fails, fail_at) ==
    IF connect_fails THEN [w EXCEPT !.result = "OperationalError"]
    ELSE flush_loop(w, order, 1, fail_at)

\* len(self.buffer[query]) == self.MAX_BUFFER_SIZE
buffer_full(w, query) == Len(w.buffer[query]) = MAX_BUFFER_SIZE

buffer_append(w, query, m) ==
    [w EXCEPT !.buffer = IF query \in DOMAIN w.buffer
                         THEN [w.buffer EXCEPT ![query] = Append(@, row_tuple(m))]
                         ELSE Put(w.buffer, query, <<row_tuple(m)>>)]

\* Service.batch_create
Service_batch_create(w, m, order, connect_fails, fail_at) ==
    LET query == insert_query(m.cls)
        w1 == buffer_append(w, query, m)
    IN  IF buffer_full(w1, query)
        THEN Service_flush(w1, order, connect_fails, fail_at) ELSE w1

\* Service.batch_update
Service_batch_update(w, m, order, connect_fails, fail_at) ==
    LET query == upsert_query(m.cls)
        w1 == buffer_append(w, query, m)
    IN  IF buffer_full(w1, query)
        THEN Service_flush(w1, order, connect_fails, fail_at) ELSE w1

\* Which executemany of a flush the store fails: none, the first or the second
FailPoints == 0..2

\* The orders in which `for query in self.buffer` may meet the keys of the
\* dictionary: any order before Python 3.7, insertion order since
Orders(d) ==
    {o \in [1..Cardinality(DOMAIN d) -> DOMAIN d] :
       \A i, j \in DOMAIN o : i # j => o[i] # o[j]}

\* The records an application batches: of the record's type, with or without
\* an id of their own, their data column unset or set to one value
BatchValues == {None, 1}

BatchModels(cls) ==
    {Model_init(cls, d) : d \in {x \in Dicts(cls) : DOMAIN x \subseteq ColSet(cls)
                                                   /\ \A k \in DOMAIN x : x[k] \in BatchValues}}

InitBatch ==
    /\ model \in {Model_init(cls, Empty) : cls \in Stored}
    /\ sets = Empty
    /\ pure = TRUE
    /\ call = NoCall("init")
    /\ redis = [str |-> Empty, obj |-> Empty]
    /\ IdleStore
    /\ IdleHash

BatchWorld ==
    [buffer |-> buffer, db |-> db, autoinc |-> autoinc, stmts |-> <<>>, result |-> "ok"]

BatchReturns(op, m, w) ==
    /\ model' = m
    /\ buffer' = w.buffer
    /\ db' = w.db
    /\ autoinc' = w.autoinc
    /\ call' = [NoCall(op) EXCEPT !.result = w.result, !.stmts = w.stmts]
    /\ UNCHANGED <<sets, pure, redis, pc, old_hash, watched, hash_of>>

\* rows that will ask the store for an AUTO_INCREMENT id
Pending(table) ==
    Cardinality({<<q, i>> \in UNION {{<<q, i>> : i \in DOMAIN buffer[q]} : q \in DOMAIN buffer} :
                   table_name(query_class(q)) = table /\ buffer[q][i][1] = None})

\* the buffer and the store have room for the record
CanBatch(m, query) ==
    /\ query \in DOMAIN buffer => Len(buffer[query]) < MaxRows
    /\ Model_id(m) = None =>
         autoinc[table_name(m.cls)] + Pending(table_name(m.cls)) <= MaxId

BatchCreate(m, connect_fails, fail_at) ==
    /\ CanBatch(m, insert_query(m.cls))
    /\ \E order \in Orders(buffer_append(BatchWorld, insert_query(m.cls), m).buffer) :
         BatchReturns("batch_create", m,
                      Service_batch_create(BatchWorld, m, order, connect_fails, fail_at))

BatchUpdate(m, connect_fails, fail_at) ==
    /\ CanBatch(m, upsert_query(m.cls))
    /\ \E order \in Orders(buffer_append(BatchWorld, upsert_query(m.cls), m).buffer) :
         BatchReturns("batch_update", m,
                      Service_batch_update(BatchWorld, m, order, connect_fails, fail_at))

Flush(connect_fails, fail_at) ==
    \E order \in Orders(buffer) :
        BatchReturns("flush", model, Service_flush(BatchWorld, order, connect_fails, fail_at))

NextBatch ==
    \/ \E m \in BatchModels(model.cls) : \E c \in BOOLEAN : \E f \in FailPoints : BatchCreate(m, c, f)
    \/ \E m \in BatchModels(model.cls) : \E c \in BOOLEAN : \E f \in FailPoints : BatchUpdate(m, c, f)
    \/ \E c \in BOOLEAN : \E f \in FailPoints : Flush(c, f)

SpecBatch == InitBatch /\ [][NextBatch]_vars

(***************************************************************************)
(* The join resolver: build_join_clause inside Service.retrieve_filtered   *)
(* (src/src/services.py).  The Service's model_class is Blog; the filters  *)
(* name record types, and `dependencies` maps a type to the type it        *)
(* references.  A join clause is kept as its target and its dependency.    *)
(***************************************************************************)
MaxFilters == 2

JoinTypes == {"Blog", "Post", "Comment", "Vote"}
model_class == "Blog"

\* the dictionaries a caller may pass as `dependencies`
Dependencies ==
    UNION {[K -> JoinTypes] : K \in SUBSET JoinTypes}

\* the filter lists, by the type each filter names (filter[0])
FilterLists == UNION {[1..n -> JoinTypes] : n \in 0..MaxFilters}

\* `dependency in completed`
Mut_always_satisfied(dependency, completed) == TRUE

satisfied(dependency, completed) == dependency \in completed

\* completed.add(target)
Mut_add_nothing(completed, target) == completed

add_completed(completed, target) == completed \cup {target}

\* the loop `for target, seen in pending`, which sees what it appends; `steps`
\* counts the entries of `pending` it has gone through
RECURSIVE join_loop(_, _, _, _, _)
join_loop(dependencies, pending, completed, join_clauses, i) ==
    IF i > Len(pending)
    THEN [result |-> "ok", join_clauses |-> join_clauses, steps |-> i - 1]
    ELSE LET target == pending[i][1]
             seen == pending[i][2]
             \* dependencies.get(target, None): None when the type has no entry
             has_dependency == target \in DOMAIN dependencies
             dependency == dependencies[target]
         IN  IF has_dependency /\ target \notin completed
             THEN IF satisfied(dependency, completed)
                  THEN join_loop(dependencies, pending, add_completed(completed, target),
                                 Append(join_clauses,
                                        [target |-> target, dependency |-> dependency]),
                                 i + 1)
                  ELSE IF ~seen
                  THEN join_loop(dependencies,
                                 pending \o <<(<<dependency, FALSE>>), (<<target, TRUE>>)>>,
                                 completed, join_clauses, i + 1)
                  ELSE [result |-> "Exception", join_clauses |-> join_clauses, steps |-> i]
             ELSE join_loop(dependencies, pending, completed, join_clauses, i + 1)

build_join_clause(dependencies, filters) ==
    join_loop(dependencies, [i \in DOMAIN filters |-> <<filters[i], FALSE>>],
              {model_class}, <<>>, 1)

\* a caller has its filters and its dependencies at hand
InitJoin ==
    /\ IdleModel
    /\ \E filters \in FilterLists : \E dependencies \in Dependencies :
         call = [NoCall("init") EXCEPT
                   !.arg = [filters |-> filters, dependencies |-> dependencies],
                   !.value = <<>>]
    /\ redis = [str |-> Empty, obj |-> Empty]
    /\ IdleStore
    /\ IdleHash

\* Service.retrieve_filtered: the query is built, join clause included, and
\* then executed; the call remembers its arguments, the join clauses and the
\* statement it executed
RetrieveFiltered(filters, dependencies) ==
    LET built == build_join_clause(dependencies, filters) IN
    /\ call.op = "init"
    /\ call' = [NoCall("retrieve_filtered") EXCEPT
                  !.arg = [filters |-> filters, dependencies |-> dependencies],
                  !.result = built.result,
                  !.value = built.join_clauses,
                  !.stmts = IF built.result = "ok"
                            THEN <<stmt("SELECT", model_class, built.join_clauses, None)>>
                            ELSE <<>>]
    /\ UNCHANGED <<model, sets, pure, db, autoinc, redis, buffer,
                   pc, old_hash, watched, hash_of>>

NextJoin == RetrieveFiltered(call.arg.filters, call.arg.dependencies)

SpecJoin == InitJoin /\ [][NextJoin]_vars

(***************************************************************************)
(* Lookups by id: Service.retrieve_by_id, which is retrieve_by_prop with   *)
(* the property 'ID' (src/src/services.py), in front of Redis.get_object   *)
(* and Redis.set_object (src/f5/storage.py).  The Service's model_class is *)
(* the type of `model`.  A call's value is the sequence of records it      *)
(* returned: empty when it returned None.                                  *)
(***************************************************************************)
\* Redis.get_object(model_class, id)
get_object(r, cls, id) ==
    LET key == build_key_ns(table_name(cls), id)
        mapping == redis_hgetall(r, key)
    IN  IF mapping # Empty
        THEN LET data == [k \in DOMAIN mapping |-> decode(mapping[k])]
             IN  <<Model_set_id(Model_init(cls, data), id)>>
        ELSE <<>>

\* SELECT columns FROM t WHERE ID = prop [AND date_deleted IS NULL] LIMIT 1
Mut_select_sees_deleted(d, cls, prop) ==
    IF prop \in DOMAIN d[table_name(cls)] THEN d[table_name(cls)][prop] ELSE Empty

db_select(d, cls, prop) ==
    LET table == table_name(cls) IN
    IF /\ prop \in DOMAIN d[table]
       /\ "date_deleted" \in ColSet(cls) => d[table][prop]["date_deleted"] = None
    THEN d[table][prop] ELSE Empty

\* does retrieve_by_prop take the cached record?
Mut_cache_never_hits(use_cache, cached) == FALSE

cache_hit(use_cache, cached) == use_cache /\ cached # <<>>

\* Service.retrieve_by_prop(prop, 'ID', use_cache) on the world
\* [db, redis, stmts, cache, result, value]
Service_retrieve_by_id(w, cls, item_id, use_cache, fail) ==
    LET cached == IF use_cache THEN get_object(w.redis, cls, item_id) ELSE <<>>
        w0 == IF use_cache THEN [w EXCEPT !.cache = <<"get_object">>] ELSE w
        sel == stmt("SELECT", table_name(cls), Empty, item_id)
    IN  IF cache_hit(use_cache, cached) THEN [w0 EXCEPT !.value = cached]
        ELSE IF fail = "connect" THEN [w0 EXCEPT !.result = "OperationalError"]
        ELSE IF fail = "execute"
        THEN [w0 EXCEPT !.result = "DatabaseError", !.stmts = <<sel>>]
        ELSE LET result == db_select(w0.db, cls, item_id)
                 m == Model_init(cls, result)
             IN  IF result # Empty
                 THEN IF use_cache
                      THEN [w0 EXCEPT !.stmts = <<sel>>, !.value = <<m>>,
                                      !.redis = set_object(w0.redis, m),
                                      !.cache = Append(w0.cache, "set_object")]
                      ELSE [w0 EXCEPT !.stmts = <<sel>>, !.value = <<m>>]
                 ELSE [w0 EXCEPT !.stmts = <<sel>>]

\* the tables a Service may find: any rows under the ids
StoredRows(cls) ==
    UNION {{f \in [K -> Rows(cls)] : \A id \in K : f[id]["id"] = id} : K \in SUBSET Ids}

\* the ids a caller may ask for: the ids, and one no row can have
LookupIds == 1..(MaxId + 1)

\* the store holds any rows; the cache holds what set_object wrote for any
\* rows, the same or earlier ones
InitRetrieve ==
    /\ model \in {Model_init(cls, Empty) : cls \in Stored}
    /\ sets = Empty
    /\ pure = TRUE
    /\ call = [NoCall("init") EXCEPT !.arg = [item_id |-> None, use_cache |-> FALSE],
                                     !.value = <<>>]
    /\ \E rows \in StoredRows(model.cls) :
         db = [t \in Tables |-> IF t = table_name(model.cls) THEN rows ELSE Empty]
    /\ autoinc = [t \in Tables |-> MaxId + 1]
    /\ \E rows \in StoredRows(model.cls) :
         redis = [str |-> Empty,
                  obj |-> [key \in {build_key_ns(table_name(model.cls), id) : id \in DOMAIN rows} |->
                             LET id == CHOOSE i \in DOMAIN rows :
                                         build_key_ns(table_name(model.cls), i) = key
                             IN  set_object([str |-> Empty, obj |-> Empty],
                                            Saved(model.cls, rows[id])).obj[key]]]
    /\ buffer = Empty
    /\ IdleHash

RetrieveById(item_id, use_cache, fail) ==
    LET w == Service_retrieve_by_id([db |-> db, redis |-> redis, stmts |-> <<>>,
                                     cache |-> <<>>, result |-> "ok", value |-> <<>>],
                                    model.cls, item_id, use_cache, fail)
    IN  /\ redis' = w.redis
        /\ call' = [NoCall("retrieve_by_id") EXCEPT
                      !.arg = [item_id |-> item_id, use_cache |-> use_cache],
                      !.result = w.result, !.value = w.value,
                      !.stmts = w.stmts, !.cache = w.cache]
        /\ UNCHANGED <<model, sets, pure, db, autoinc, buffer,
                       pc, old_hash, watched, hash_of>>

NextRetrieve ==
    \E item_id \in LookupIds : \E use_cache \in BOOLEAN : \E fail \in Fails :
        RetrieveById(item_id, use_cache, fail)

SpecRetrieve == InitRetrieve /\ [][NextRetrieve]_vars

(***************************************************************************)
(* Lookups by a list of ids: Service.retrieve_by_id_list, which is         *)
(* retrieve_by_prop_list with the property 'id' (src/src/services.py), and *)
(* the older Service.retrieve_by_id_list (src/f5/services.py).             *)
(***************************************************************************)
MaxList == 2

IdLists == UNION {[1..n -> LookupIds] : n \in 0..MaxList}

\* SELECT ... WHERE id IN (id_list) AND date_deleted IS NULL
\* ORDER BY FIELD(id, id_list): the live rows, by the place of their id in
\* the list
RECURSIVE select_by_field(_, _, _)
select_by_field(table, id_list, i) ==
    IF i > Len(id_list) THEN <<>>
    ELSE LET id == id_list[i]
             first == \A j \in 1..(i - 1) : id_list[j] # id
         IN  (IF first /\ id \in DOMAIN table /\ table[id]["date_deleted"] = None
              THEN <<table[id]>> ELSE <<>>)
             \o select_by_field(table, id_list, i + 1)

\* the rows fetched become records; with use_cache each is cached
RECURSIVE models_of(_, _, _, _, _)
models_of(w, cls, results, use_cache, i) ==
    IF i > Len(results) THEN w
    ELSE LET m == Model_init(cls, results[i])
             w1 == [w EXCEPT !.value = Append(w.value, m)]
         IN  models_of(IF use_cache
                       THEN [w1 EXCEPT !.redis = set_object(w1.redis, m),
                                       !.cache = Append(w1.cache, "set_object")]
                       ELSE w1,
                       cls, results, use_cache, i + 1)

\* the statement of both versions, executed: it names date_deleted, and with
\* no id at all it reads `IN ()`, which the store rejects
execute_select_list(w, cls, id_list, use_cache, fail) ==
    LET sel == stmt("SELECT", table_name(cls), Empty, id_list) IN
    IF fail = "connect" THEN [w EXCEPT !.result = "OperationalError"]
    ELSE IF fail = "execute" \/ "date_deleted" \notin ColSet(cls) \/ id_list = <<>>
    THEN [w EXCEPT !.result = "DatabaseError", !.stmts = <<sel>>]
    ELSE models_of([w EXCEPT !.stmts = <<sel>>], cls,
                   select_by_field(w.db[table_name(cls)], id_list, 1), use_cache, 1)

\* src/src/services.py: Service.retrieve_by_prop_list(prop_list, 'id', use_cache)
Service_retrieve_by_id_list(w, cls, id_list, use_cache, fail) ==
    IF id_list = <<>> THEN w
    ELSE execute_select_list(w, cls, id_list, use_cache, fail)

\* src/f5/services.py: Service.retrieve_by_id_list(id_list)
F5_Service_retrieve_by_id_list(w, cls, id_list, fail) ==
    execute_select_list(w, cls, id_list, FALSE, fail)

ListReturns(op, id_list, fail, w) ==
    /\ redis' = w.redis
    /\ call' = [NoCall(op) EXCEPT
                  !.arg = [id_list |-> id_list, fail |-> fail],
                  !.result = w.result, !.value = w.value,
                  !.stmts = w.stmts, !.cache = w.cache]
    /\ UNCHANGED <<model, sets, pure, db, autoinc, buffer,
                   pc, old_hash, watched, hash_of>>

ListWorld ==
    [db |-> db, redis |-> redis, stmts |-> <<>>, cache |-> <<>>,
     result |-> "ok", value |-> <<>>]

RetrieveByIdList(id_list, use_cache, fail) ==
    ListReturns("retrieve_by_id_list", id_list, fail,
                Service_retrieve_by_id_list(ListWorld, model.cls, id_list, use_cache, fail))

F5RetrieveByIdList(id_list, fail) ==
    ListReturns("f5_retrieve_by_id_list", id_list, fail,
                F5_Service_retrieve_by_id_list(ListWorld, model.cls, id_list, fail))

NextList ==
    \/ \E id_list \in IdLists : \E use_cache \in BOOLEAN : \E fail \in Fails :
         RetrieveByIdList(id_list, use_cache, fail)
    \/ \E id_list \in IdLists : \E fail \in Fails : F5RetrieveByIdList(id_list, fail)

SpecList == InitRetrieve /\ [][NextList]_vars

(***************************************************************************)
(* Lookups through a link: Service.retrieve_for_model (src/src/services.py)*)
(* reads the record whose id another record holds in its link column.  The *)
(* record of the application is a copy of a live stored row; it is deleted *)
(* and looked up again, by id and through a link.                          *)
(***************************************************************************)
\* SELECT columns FROM t obj WHERE id = link_id
select_by_id(d, cls, link_id) ==
    IF link_id \in DOMAIN d[table_name(cls)] THEN d[table_name(cls)][link_id] ELSE Empty

\* Service.retrieve_for_model(model, None) with link_id = model.get(link_name)
Service_retrieve_for_model(w, cls, link_id, fail) ==
    LET obj == get_object(w.redis, cls, link_id)
        w0 == [w EXCEPT !.cache = <<"get_object">>]
        sel == stmt("SELECT", table_name(cls), Empty, link_id)
    IN  IF link_id = None THEN w
        ELSE IF obj # <<>> THEN [w0 EXCEPT !.value = obj]
        ELSE IF fail = "connect" THEN [w0 EXCEPT !.result = "OperationalError"]
        ELSE IF fail = "execute"
        THEN [w0 EXCEPT !.result = "DatabaseError", !.stmts = <<sel>>]
        ELSE LET r == select_by_id(w0.db, cls, link_id)
                 m == Model_init(cls, r)
             IN  IF r # Empty
                 THEN [w0 EXCEPT !.stmts = <<sel>>, !.value = <<m>>,
                                 !.redis = set_object(w0.redis, m),
                                 !.cache = Append(w0.cache, "set_object")]
                 ELSE [w0 EXCEPT !.stmts = <<sel>>]

LiveRows(cls) ==
    {row \in Rows(cls) : "date_deleted" \in ColSet(cls) => row["date_deleted"] = None}

InitLink ==
    /\ \E cls \in Stored : \E row \in LiveRows(cls) : \E d \in SUBSET ColSet(cls) :
         /\ model = [cls |-> cls, fields |-> row, dirty |-> d]
         /\ db = [t \in Tables |-> IF t = table_name(cls)
                                   THEN Put(Empty, row["id"], row) ELSE Empty]
         /\ redis \in {[str |-> Empty, obj |-> Empty]} \cup
                      {W_cache([redis |-> [str |-> Empty, obj |-> Empty], cache |-> <<>>,
                                model |-> Saved(cls, row)], h).redis : h \in Hashes}
    /\ sets = Empty
    /\ pure = TRUE
    /\ call = NoCall("init")
    /\ autoinc = [t \in Tables |-> MaxId + 1]
    /\ buffer = Empty
    /\ IdleHash

RetrieveForModel(link_id, fail) ==
    LET w == Service_retrieve_for_model(ListWorld, model.cls, link_id, fail)
    IN  /\ redis' = w.redis
        /\ call' = [NoCall("retrieve_for_model") EXCEPT
                      !.arg = [item_id |-> link_id, use_cache |-> TRUE],
                      !.result = w.result, !.value = w.value,
                      !.stmts = w.stmts, !.cache = w.cache]
        /\ UNCHANGED <<model, sets, pure, db, autoinc, buffer,
                       pc, old_hash, watched, hash_of>>

NextLink ==
    \/ \E now \in Clock : \E fail \in Fails : \E h \in Hashes : Delete(now, fail, h)
    \/ \E item_id \in LookupIds : \E use_cache \in BOOLEAN : \E fail \in Fails :
         RetrieveById(item_id, use_cache, fail)
    \/ \E link_id \in {None} \cup LookupIds : \E fail \in Fails :
         RetrieveForModel(link_id, fail)

SpecLink == InitLink /\ [][NextLink]_vars

(***************************************************************************)
(* Service.delete_all (src/src/services.py) on a list of records of the    *)
(* Service's type.  The world of the call carries the list as `models`;    *)
(* the call is recorded with the list it was given and leaves the records  *)
(* as its value.                                                           *)
(***************************************************************************)
\* for model in models: self.delete(model) -- an error ends the loop
RECURSIVE delete_each(_, _, _, _, _)
delete_each(w, now, fail, h, i) ==
    IF i > Len(w.models) \/ w.result # "ok" THEN w
    ELSE LET w1 == Service_delete([w EXCEPT !.model = w.models[i]], now, fail, h)
         IN  delete_each([w1 EXCEPT !.models[i] = w1.model], now, fail, h, i + 1)

\* for model in models: model.id = None; delete_hash(model); delete_object(model)
RECURSIVE forget_each(_, _)
forget_each(w, i) ==
    IF i > Len(w.models) THEN w
    ELSE LET m == Model_set_id(w.models[i], None)
         IN  forget_each([w EXCEPT !.models[i] = m,
                                   !.redis = delete_object(delete_hash(w.redis, m), m),
                                   !.cache = w.cache \o <<"delete_hash", "delete_object">>],
                         i + 1)

Mut_delete_all_per_record(w, cls, date_deleted, now, fail, h) ==
    delete_each(w, now, fail, h, 1)

\* Service.delete_all(models, date_deleted) of the Service of type cls
Service_delete_all(w, cls, date_deleted, now, fail, h) ==
    LET table == table_name(cls)
        id_list == [i \in 1..Len(w.models) |-> Model_id(w.models[i])]
        del == stmt("DELETE", table, Empty, id_list)
    IN  IF date_deleted THEN delete_each(w, now, fail, h, 1)
        ELSE IF fail = "connect" THEN [w EXCEPT !.result = "OperationalError"]
        \* with no record the statement reads `IN ()`, which the store rejects
        ELSE IF fail = "execute" \/ id_list = <<>>
        THEN [w EXCEPT !.result = "DatabaseError", !.stmts = <<del>>]
        ELSE forget_each([w EXCEPT
                            !.stmts = <<del>>,
                            !.db[table] = [id \in (DOMAIN @) \ Range(id_list) |-> @[id]]], 1)

\* the lists a caller may pass: clean records of the Service's type
RecordLists(cls) ==
    UNION {[1..n -> {Saved(cls, f) : f \in FieldMaps(cls)}] : n \in 0..MaxList}

InitDeleteAll ==
    /\ model \in {Model_init(cls, Empty) : cls \in Stored}
    /\ sets = Empty
    /\ pure = TRUE
    /\ \E models \in RecordLists(model.cls) :
         call = [NoCall("init") EXCEPT !.arg = [models |-> models, date_deleted |-> FALSE],
                                       !.value = models]
    /\ \E rows \in StoredRows(model.cls) :
         /\ db = [t \in Tables |-> IF t = table_name(model.cls) THEN rows ELSE Empty]
         /\ redis \in {[str |-> Empty, obj |-> Empty],
                       [str |-> Empty,
                        obj |-> [key \in {build_key_ns(table_name(model.cls), id) : id \in DOMAIN rows} |->
                                   LET id == CHOOSE i \in DOMAIN rows :
                                               build_key_ns(table_name(model.cls), i) = key
                                   IN  set_object([str |-> Empty, obj |-> Empty],
                                                  Saved(model.cls, rows[id])).obj[key]]]}
    /\ autoinc = [t \in Tables |-> MaxId + 1]
    /\ buffer = Empty
    /\ IdleHash

DeleteAll(models, date_deleted, now, fail, h) ==
    LET w == Service_delete_all([models |-> models, model |-> model, db |-> db,
                                 redis |-> redis, stmts |-> <<>>, cache |-> <<>>,
                                 result |-> "ok"],
                                model.cls, date_deleted, now, fail, h)
    IN  /\ call.op = "init"
        /\ db' = w.db
        /\ redis' = w.redis
        /\ call' = [NoCall("delete_all") EXCEPT
                      !.arg = [models |-> models, date_deleted |-> date_deleted],
                      !.result = w.result, !.value = w.models,
                      !.stmts = w.stmts, !.cache = w.cache]
        /\ UNCHANGED <<model, sets, pure, autoinc, buffer, pc, old_hash, watched, hash_of>>

NextDeleteAll ==
    \E date_deleted \in BOOLEAN : \E now \in Clock : \E fail \in Fails : \E h \in Hashes :
        DeleteAll(call.arg.models, date_deleted, now, fail, h)

SpecDeleteAll == InitDeleteAll /\ [][NextDeleteAll]_vars

(***************************************************************************)
(* The Database context manager (src/f5/storage.py, src/src/storage.py)    *)
(* under the with-blocks of the Service (src/src/services.py), one command *)
(* at a time.  A Database object is                                        *)
(*   [_mode, _conn, _cursor, lockout, open, pending, committed]            *)
(* where `open` counts the connections opened and not closed, `pending`    *)
(* the statements executed and not committed, `committed` those committed  *)
(* by the call.  Calls are made one at a time: no operation is concurrent  *)
(* within a Service.  The call is recorded with the datastore and the      *)
(* commands still to run (arg), the commands invoked (stmts) and the       *)
(* Database object (value).                                                *)
(***************************************************************************)
MaxCmds == 2

Modes == {"read", "write"}

Database_init(mode) ==
    [_mode |-> mode, _conn |-> "none", _cursor |-> "none", lockout |-> FALSE,
     open |-> 0, pending |-> 0, committed |-> 0]

\* Database.__enter__ once MySQLdb.connect has returned
Mut_enter_without_lockout(d) ==
    [d EXCEPT !._conn = "open", !._cursor = "open", !.open = @ + 1,
              !.pending = 0, !.committed = 0]

Database_enter(d) ==
    [d EXCEPT !._conn = "open", !._cursor = "open", !.open = @ + 1,
              !.lockout = (d._mode = "read"),
              !.pending = 0, !.committed = 0]

\* Database.__exit__
Mut_exit_keeps_connection(d) == [d EXCEPT !._cursor = "closed"]

Database_exit(d) ==
    [d EXCEPT !._cursor = "closed", !._conn = "closed", !.open = @ - 1, !.pending = 0]

\* conn.commit() and conn.rollback() where not_implemented has not replaced them
conn_commit(d) == [d EXCEPT !.committed = @ + d.pending, !.pending = 0]
conn_rollback(d) == [d EXCEPT !.pending = 0]

\* the with-blocks of the Service: the datastore and the commands of the body
ReadOps ==
    {"count", "retrieve_by_prop", "retrieve_filtered", "retrieve_by_prop_list",
     "retrieve_all", "retrieve_for_model", "retrieve_all_for_model",
     "retrieve_list_for_model"}

WriteOps ==
    {"model_assoc_items", "model_deassoc_item", "create", "update", "delete",
     "delete_all", "flush"}

RECURSIVE flush_body(_)
flush_body(n) == IF n = 0 THEN <<>> ELSE <<"execute", "commit">> \o flush_body(n - 1)

\* refresh: update's second execute; n: the queries in the buffer at a flush
with_block(op, refresh, n) ==
    [datastore |-> IF op \in ReadOps THEN "mysql_read" ELSE "mysql_write",
     todo |-> CASE op \in ReadOps -> <<"execute">>
                [] op = "update" /\ refresh -> <<"execute", "commit", "execute">>
                [] op = "flush" -> flush_body(n)
                [] OTHER -> <<"execute", "commit">>]

\* a caller of its own: any commands on either datastore
ClientBlocks ==
    [datastore : {"mysql_read", "mysql_write"},
     todo : UNION {[1..n -> {"execute", "commit", "rollback"}] : n \in 0..MaxCmds}]

Blocks(op) ==
    IF op = "client" THEN ClientBlocks
    ELSE {with_block(op, refresh, n) : refresh \in BOOLEAN, n \in 0..MaxCmds}

Ended(p) == pc[p] \in {"idle", "done", "raised"}

InitConn ==
    /\ IdleModel
    /\ call \in {[NoCall("init") EXCEPT !.arg = [datastore |-> "mysql_read", todo |-> <<>>],
                                        !.value = Database_init(mode)] : mode \in Modes}
    /\ redis = [str |-> Empty, obj |-> Empty]
    /\ IdleStore
    /\ IdleHash

ConnFrame == UNCHANGED <<model, sets, pure, db, autoinc, redis, buffer,
                         old_hash, watched, hash_of>>

\* with self.datastores[...] as (conn, cursor): MySQLdb.connect raises or
\* __enter__ returns
Enter(p, op, block, mode, fail) ==
    /\ \A q \in Procs : Ended(q)
    /\ LET d == Database_init(mode) IN
       IF fail
       THEN /\ call' = [NoCall(op) EXCEPT !.arg = block, !.value = d,
                                          !.result = "OperationalError"]
            /\ pc' = [pc EXCEPT ![p] = "raised"]
       ELSE /\ call' = [NoCall(op) EXCEPT !.arg = block, !.value = Database_enter(d)]
            /\ pc' = [pc EXCEPT ![p] = "body"]
    /\ ConnFrame

\* the next command of the body; after the last one the block is left
Command(p, fail) ==
    /\ pc[p] = "body"
    /\ call.arg.todo # <<>>
    /\ LET cmd == Head(call.arg.todo)
           d == call.value
           ran == [call EXCEPT !.stmts = Append(@, cmd), !.arg.todo = Tail(@)]
           raises(error) ==
               /\ call' = [ran EXCEPT !.result = error]
               /\ pc' = [pc EXCEPT ![p] = IF call.op = "flush" /\ cmd = "execute"
                                           THEN "except" ELSE "exit"]
       IN  CASE cmd = "execute" ->
                  IF fail THEN raises("DatabaseError")
                  ELSE /\ call' = [ran EXCEPT !.value.pending = @ + 1]
                       /\ UNCHANGED pc
             [] cmd = "commit" ->
                  IF d.lockout THEN raises("NotImplementedError")
                  ELSE /\ call' = [ran EXCEPT !.value = conn_commit(d)]
                       /\ UNCHANGED pc
             [] OTHER ->
                  IF d.lockout THEN raises("NotImplementedError")
                  ELSE /\ call' = [ran EXCEPT !.value = conn_rollback(d)]
                       /\ UNCHANGED pc
    /\ ConnFrame

\* flush: except Exception as e: conn.rollback(); self.buffer = {}; raise e
Except(p) ==
    /\ pc[p] = "except"
    /\ call' = IF call.value.lockout
               THEN [call EXCEPT !.stmts = Append(@, "rollback"),
                                 !.result = "NotImplementedError"]
               ELSE [call EXCEPT !.stmts = Append(@, "rollback"),
                                 !.value = conn_rollback(call.value)]
    /\ pc' = [pc EXCEPT ![p] = "exit"]
    /\ ConnFrame

\* leaving the with-block, by its end or by an exception: __exit__
Exit(p) ==
    /\ \/ pc[p] = "exit"
       \/ pc[p] = "body" /\ call.arg.todo = <<>>
    /\ call' = [call EXCEPT !.value = Database_exit(call.value)]
    /\ pc' = [pc EXCEPT ![p] = IF call.result = "ok" THEN "done" ELSE "raised"]
    /\ ConnFrame

NextConn ==
    \/ \E p \in Procs : \E op \in ReadOps \cup WriteOps \cup {"client"} :
         \E block \in Blocks(op) : \E mode \in Modes : \E fail \in BOOLEAN :
           Enter(p, op, block, mode, fail)
    \/ \E p \in Procs : \E fail \in BOOLEAN : Command(p, fail)
    \/ \E p \in Procs : Except(p)
    \/ \E p \in Procs : Exit(p)

SpecConn == InitConn /\ [][NextConn]_vars

(***************************************************************************)
(* Service.match_identifier (src/src/services.py and src/f5/services.py).  *)
(* A string is a sequence of characters, one of each kind: a letter, the   *)
(* underscore, a digit, another printable character and the newline.  The  *)
(* call's value is the string returned, empty when it returned None.       *)
(***************************************************************************)
MaxLen == 3

Chars == {"a", "_", "7", "-", "\n"}

Strings == UNION {[1..n -> Chars] : n \in 0..MaxLen}

\* [a-zA-Z_] and [a-zA-Z0-9_]
letter_or_underscore == {"a", "_"}
word_char == {"a", "_", "7"}

\* `$` of Python's re without MULTILINE: the end of the string, or the place
\* before a newline that ends it
at_dollar(s, i) == i = Len(s) + 1 \/ (i = Len(s) /\ s[i] = "\n")

\* pattern.match(s) for ^[first][rest]*$ : the length matched, 0 for no match
re_match(s, first, rest) ==
    LET ends == {k \in 1..Len(s) : /\ s[1] \in first
                                   /\ \A j \in 2..k : s[j] \in rest
                                   /\ at_dollar(s, k + 1)}
    IN  IF ends = {} THEN 0 ELSE CHOOSE k \in ends : \A l \in ends : l <= k

\* match and match.group()
match_group(s, k) == SubSeq(s, 1, k)

\* src/src/services.py: ^[a-zA-Z_][a-zA-Z0-9_]*$
match_identifier(identifier) ==
    match_group(identifier, re_match(identifier, letter_or_underscore, word_char))

\* src/f5/services.py: ^[a-zA-Z_]+$
F5_match_identifier(identifier) ==
    match_group(identifier, re_match(identifier, letter_or_underscore, letter_or_underscore))

InitIdent ==
    /\ IdleModel
    /\ call \in {[NoCall("init") EXCEPT !.arg = identifier, !.value = <<>>] :
                   identifier \in Strings}
    /\ redis = [str |-> Empty, obj |-> Empty]
    /\ IdleStore
    /\ IdleHash

Matched(op, identifier, value) ==
    /\ call.op = "init"
    /\ call' = [NoCall(op) EXCEPT !.arg = identifier, !.value = value]
    /\ UNCHANGED <<model, sets, pure, db, autoinc, redis, buffer,
                   pc, old_hash, watched, hash_of>>

NextIdent ==
    \/ Matched("match_identifier", call.arg, match_identifier(call.arg))
    \/ Matched("f5_match_identifier", call.arg, F5_match_identifier(call.arg))

SpecIdent == InitIdent /\ [][NextIdent]_vars

(***************************************************************************)
(* Service.model_assoc_items (src/src/services.py).  The call is given the *)
(* id of the base record, the ids of the items and the extra columns; an   *)
(* extra value is [is_list, vals]: a list with its elements, or a scalar   *)
(* as the one element of vals.                                             *)
(***************************************************************************)
ExtraValues ==
    [is_list : {TRUE}, vals : UNION {[1..n -> Values] : n \in 0..MaxList}]
    \cup [is_list : {FALSE}, vals : {<<v>> : v \in Values}]

Extras == UNION {[K -> ExtraValues] : K \in SUBSET {"position"}}

\* val_list: the list itself, or the scalar once per item
val_list(val, n) == IF val.is_list THEN val.vals ELSE [i \in 1..n |-> val.vals[1]]

\* Service.model_assoc_items(base_model, items, **extra): the module never
\* imports `chain`, so the line that flattens the rows raises NameError
Service_model_assoc_items(w, base_id, items, extra) ==
    IF \E k \in DOMAIN extra : Len(val_list(extra[k], Len(items))) # Len(items)
    THEN [w EXCEPT !.result = "ValueError"]
    ELSE IF items = <<>> THEN [w EXCEPT !.result = "IndexError"]
    ELSE [w EXCEPT !.result = "NameError"]

InitAssoc ==
    /\ IdleModel
    /\ call \in {[NoCall("init") EXCEPT
                    !.arg = [base_id |-> base_id, items |-> items, extra |-> extra],
                    !.value = <<>>] :
                   base_id \in Ids, items \in IdLists, extra \in Extras}
    /\ redis = [str |-> Empty, obj |-> Empty]
    /\ IdleStore
    /\ IdleHash

ModelAssocItems(base_id, items, extra) ==
    LET w == Service_model_assoc_items(ListWorld, base_id, items, extra)
    IN  /\ call.op = "init"
        /\ call' = [call EXCEPT !.op = "model_assoc_items", !.result = w.result,
                                !.stmts = w.stmts]
        /\ db' = w.db
        /\ UNCHANGED <<model, sets, pure, autoinc, redis, buffer,
                       pc, old_hash, watched, hash_of>>

NextAssoc == ModelAssocItems(call.arg.base_id, call.arg.items, call.arg.extra)

SpecAssoc == InitAssoc /\ [][NextAssoc]_vars

(***************************************************************************)
(* The cache beside the store, with two clients.  One client reads a row   *)
(* through retrieve_by_id(item_id) on a cache miss, in the two steps of    *)
(* retrieve_by_prop (src/src/services.py): the SELECT that builds its      *)
(* record (`model`), then set_object.  The other client, between any two   *)
(* steps, retrieves a row, sets a field and calls update, or calls delete. *)
(***************************************************************************)
InitCoherent == InitLink /\ model.dirty = {}

CoherentFrame == UNCHANGED <<sets, pure, autoinc, buffer, old_hash, watched, hash_of>>

\* retrieve_by_prop up to `model = self.model_class(result)`
Select(p, item_id) ==
    /\ \A q \in Procs : pc[q] = "idle"
    /\ get_object(redis, model.cls, item_id) = <<>>
    /\ db_select(db, model.cls, item_id) # Empty
    /\ model' = Model_init(model.cls, db_select(db, model.cls, item_id))
    /\ pc' = [pc EXCEPT ![p] = "fetched"]
    /\ call' = [NoCall("select") EXCEPT !.old_id = item_id]
    /\ UNCHANGED <<db, redis>>
    /\ CoherentFrame

\* retrieve_by_prop from `self.datastores['redis'].set_object(model)`
Populate(p) ==
    /\ pc[p] = "fetched"
    /\ redis' = set_object(redis, model)
    /\ pc' = [pc EXCEPT ![p] = "idle"]
    /\ call' = [NoCall("retrieve_by_id") EXCEPT !.old_id = Model_id(model),
                                                !.cache = <<"set_object">>]
    /\ UNCHANGED <<db, model>>
    /\ CoherentFrame

\* the other client: m = retrieve_by_id(item_id, use_cache=False);
\* m[key] = val; update(m, set_date_modified)
OtherUpdate(item_id, key, val, set_date_modified, now, h) ==
    LET row == db_select(db, model.cls, item_id)
        w == Service_update(W_setitem([World EXCEPT !.model = Model_init(model.cls, row)],
                                      key, val),
                            set_date_modified, FALSE, now, "no", h)
    IN  /\ row # Empty
        /\ ~setitem_raises(model, key)
        /\ db' = w.db
        /\ redis' = w.redis
        /\ call' = [NoCall("other_update") EXCEPT !.old_id = item_id,
                                                  !.stmts = w.stmts, !.cache = w.cache]
        /\ UNCHANGED <<model, pc>>
        /\ CoherentFrame

\* the other client: m = retrieve_by_id(item_id, use_cache=False); delete(m)
OtherDelete(item_id, now, h) ==
    LET row == db_select(db, model.cls, item_id)
        w == Service_delete([World EXCEPT !.model = Model_init(model.cls, row)],
                            now, "no", h)
    IN  /\ row # Empty
        /\ db' = w.db
        /\ redis' = w.redis
        /\ call' = [NoCall("other_delete") EXCEPT !.old_id = item_id,
                                                  !.stmts = w.stmts, !.cache = w.cache]
        /\ UNCHANGED <<model, pc>>
        /\ CoherentFrame

NextCoherent ==
    \/ \E p \in Procs : \E item_id \in Ids : Select(p, item_id)
    \/ \E p \in Procs : Populate(p)
    \/ \E item_id \in Ids : \E key \in ColSet(model.cls) : \E val \in AnyValue :
         \E sdm \in BOOLEAN : \E now \in Clock : \E h \in Hashes :
           OtherUpdate(item_id, key, val, sdm, now, h)
    \/ \E item_id \in Ids : \E now \in Clock : \E h \in Hashes : OtherDelete(item_id, now, h)

SpecCoherent == InitCoherent /\ [][NextCoherent]_vars

(***************************************************************************)
(* The WHERE clause of Service.retrieve_filtered (src/src/services.py).    *)
(* A filter (cls, field, op, val) is [cls, field, halves]: the one         *)
(* [op, is_tuple, vals] of a plain filter, or the two comparisons that the *)
(* val of an 'and' filter holds.  A scalar val is the one element of vals. *)
(* The statement is its predicates, each with its number of %s, and        *)
(* whether it ends in LIMIT %s OFFSET %s.                                  *)
(***************************************************************************)
Comparisons ==
    {[op |-> "=", is_tuple |-> FALSE, vals |-> <<1>>],
     [op |-> "is", is_tuple |-> FALSE, vals |-> <<None>>],
     [op |-> "in", is_tuple |-> TRUE, vals |-> <<2, 3>>]}

WhereFilters ==
    [cls : {"Blog", "Post"}, field : {"title"},
     halves : {<<c>> : c \in Comparisons} \cup (Comparisons \X Comparisons)]

WhereFilterLists == UNION {[1..n -> WhereFilters] : n \in 0..MaxFilters}

\* Bounds(limit, offset), or None as the empty tuple
BoundsGiven == {<<>>, <<4, 5>>}

\* decode_filter_exp((op, val)) for None, numbers and tuples of numbers
decode_filter_exp(expr) ==
    IF expr.op = "is" /\ ~expr.is_tuple /\ expr.vals = <<None>>
    THEN [mysql_op |-> "IS", is_list |-> FALSE, mysql_val |-> expr.vals]
    ELSE [mysql_op |-> expr.op, is_list |-> expr.is_tuple, mysql_val |-> expr.vals]

\* filters.insert(idx + 1, filter)
Mut_insert_at_end(filters, at, filter) == Append(filters, filter)

list_insert(filters, at, filter) ==
    SubSeq(filters, 1, at - 1) \o <<filter>> \o SubSeq(filters, at, Len(filters))

\* for idx, filter in enumerate(filters): the loop sees what it inserts
RECURSIVE where_loop(_, _, _, _)
where_loop(filters, idx, where_clauses, values) ==
    IF idx > Len(filters)
    THEN [where_clauses |-> where_clauses, values |-> values, filters |-> filters]
    ELSE LET filter == filters[idx]
             is_and == Len(filter.halves) = 2
             filters1 == IF is_and
                         THEN list_insert(filters, idx + 1,
                                          [filter EXCEPT !.halves = <<filter.halves[2]>>])
                         ELSE filters
             decoded == decode_filter_exp(filter.halves[1])
             clause == [table |-> filter.cls, field |-> filter.field,
                        op |-> decoded.mysql_op,
                        grouped |-> decoded.is_list,
                        placeholders |-> IF decoded.is_list THEN Len(decoded.mysql_val)
                                         ELSE 1]
         IN  where_loop(filters1, idx + 1, Append(where_clauses, clause),
                        values \o decoded.mysql_val)

\* Service.retrieve_filtered up to the with-block: the statement, its bind
\* tuple, and the caller's list as the loop leaves it
build_filtered_query(filters, bounds, count_only) ==
    LET built == where_loop(filters, 1, <<>>, <<>>)
        limited == ~count_only /\ bounds # <<>>
    IN  [where_clauses |-> built.where_clauses,
         limit |-> limited,
         vals |-> IF limited THEN built.values \o bounds ELSE built.values,
         filters |-> built.filters]

InitWhere ==
    /\ IdleModel
    /\ \E filters \in WhereFilterLists : \E bounds \in BoundsGiven : \E count_only \in BOOLEAN :
         call = [NoCall("init") EXCEPT
                   !.arg = [filters |-> filters, bounds |-> bounds, count_only |-> count_only],
                   !.value = build_filtered_query(<<>>, <<>>, TRUE)]
    /\ redis = [str |-> Empty, obj |-> Empty]
    /\ IdleStore
    /\ IdleHash

BuildFilteredQuery(filters, bounds, count_only) ==
    /\ call.op = "init"
    /\ call' = [call EXCEPT !.op = "retrieve_filtered",
                            !.value = build_filtered_query(filters, bounds, count_only)]
    /\ UNCHANGED <<model, sets, pure, db, autoinc, redis, buffer,
                   pc, old_hash, watched, hash_of>>

NextWhere == BuildFilteredQuery(call.arg.filters, call.arg.bounds, call.arg.count_only)

SpecWhere == InitWhere /\ [][NextWhere]_vars

(***************************************************************************)
(* decode_filter_exp on a string value (src/src/services.py).  A string is *)
(* a sequence of characters, one of each kind the function tells apart:    *)
(* the two anchors, a letter, a punctuation mark it removes, the hyphen it *)
(* turns into an underscore, and the underscore and the percent sign it    *)
(* escapes with a backslash.  The call's value is the LIKE pattern.        *)
(***************************************************************************)
FilterChars == {"^", "$", "a", "!", "-", "_", "%"}

FilterStrings == UNION {[1..n -> FilterChars] : n \in 0..MaxLen}

\* sanitize(v): escape % and _, drop [!,.'#], turn space and hyphen into _
RECURSIVE sanitize(_)
sanitize(v) ==
    IF v = <<>> THEN <<>>
    ELSE (CASE Head(v) \in {"%", "_"} -> <<"\\", Head(v)>>
            [] Head(v) = "!" -> <<>>
            [] Head(v) = "-" -> <<"_">>
            [] OTHER -> <<Head(v)>>) \o sanitize(Tail(v))

\* the isinstance(val, str) branch: sanitized_val[0] and sanitized_val[-1]
\* raise IndexError on the empty string
decode_filter_str(val) ==
    LET sanitized_val == sanitize(val)
        n == Len(sanitized_val)
        like(pattern) == [result |-> "ok", pattern |-> pattern]
    IN  IF n = 0 THEN [result |-> "IndexError", pattern |-> <<>>]
        ELSE IF sanitized_val[1] = "^" /\ sanitized_val[n] = "$"
        THEN like(SubSeq(sanitized_val, 2, n - 1))
        ELSE IF sanitized_val[1] = "^"
        THEN like(SubSeq(sanitized_val, 2, n) \o <<"%">>)
        ELSE IF sanitized_val[n] = "$"
        THEN like(<<"%">> \o SubSeq(sanitized_val, 1, n - 1))
        ELSE like(<<"%">> \o sanitized_val \o <<"%">>)

InitLike ==
    /\ IdleModel
    /\ call \in {[NoCall("init") EXCEPT !.arg = val, !.value = <<>>] : val \in FilterStrings}
    /\ redis = [str |-> Empty, obj |-> Empty]
    /\ IdleStore
    /\ IdleHash

DecodeFilterExp(val) ==
    LET decoded == decode_filter_str(val)
    IN  /\ call.op = "init"
        /\ call' = [call EXCEPT !.op = "decode_filter_exp", !.result = decoded.result,
                                !.value = decoded.pattern]
        /\ UNCHANGED <<model, sets, pure, db, autoinc, redis, buffer,
                       pc, old_hash, watched, hash_of>>

NextLike == DecodeFilterExp(call.arg)

SpecLike == InitLike /\ [][NextLike]_vars

(***************************************************************************)
(* Identifiers in statement text                                           *)
(***************************************************************************)
\* A name put into the text as it is given (str.format of the name).
interpolate_raw(identifier) ==
    [identifier |-> identifier, text |-> identifier, how |-> "raw"]

\* A name put into the text through match_identifier.  A rejected name gives
\* None, and what the text then holds depends on the expression around the
\* call: `or ''` gives the empty string, str.format gives the word None, and
\* str.join raises TypeError.
interpolate_matched(identifier, rejected) ==
    LET group == match_identifier(identifier)
    IN  IF group # <<>>
        THEN [identifier |-> identifier, text |-> group, how |-> "matched"]
        ELSE [identifier |-> identifier,
              text |-> IF rejected = "None" THEN <<"N", "o", "n", "e">> ELSE <<>>,
              how |-> rejected]

\* Service.count: the table name
count_names(table) == <<interpolate_raw(table)>>

\* Service.retrieve_by_prop: the table name and the property name
retrieve_by_prop_names(table, prop_name) ==
    <<interpolate_matched(table, "None"), interpolate_raw(prop_name)>>

\* Service.retrieve_list_for_model: the table name and the link names
retrieve_list_for_model_names(table, link_name) ==
    <<interpolate_matched(table, "None"),
      interpolate_matched(link_name, "None")>>

\* Service.create and Service.batch_create: the table name and the field names
create_names(table, key) ==
    <<interpolate_matched(table, "empty"),
      interpolate_matched(key, "TypeError")>>

\* Service.update: the modified field names and the table name
update_names(table, key) ==
    <<interpolate_raw(key), interpolate_matched(table, "None")>>

\* Service.delete without date_deleted: the table name
delete_names(table) == <<interpolate_raw(table)>>

\* One name is drawn from the strings, the other is a well-formed one.
InitNames ==
    /\ IdleModel
    /\ call \in {[NoCall("init") EXCEPT !.arg = [table_name |-> t, column |-> c],
                                        !.value = <<>>] :
                   <<t, c>> \in (Strings \X {<<"a">>}) \cup ({<<"a">>} \X Strings)}
    /\ redis = [str |-> Empty, obj |-> Empty]
    /\ IdleStore
    /\ IdleHash

\* The operation builds its statement text and, unless building it raised,
\* executes it.
BuildStatement(op, names) ==
    LET raised == \E i \in 1..Len(names) : names[i].how = "TypeError"
    IN  /\ call.op = "init"
        /\ call' = [NoCall(op) EXCEPT
                      !.arg = call.arg,
                      !.value = names,
                      !.result = IF raised THEN "TypeError" ELSE "ok",
                      !.stmts = IF raised THEN <<>> ELSE <<names>>]
        /\ UNCHANGED <<model, sets, pure, db, autoinc, redis, buffer,
                       pc, old_hash, watched, hash_of>>

NextNames ==
    \/ BuildStatement("count", count_names(call.arg.table_name))
    \/ BuildStatement("retrieve_by_prop",
                      retrieve_by_prop_names(call.arg.table_name, call.arg.column))
    \/ BuildStatement("retrieve_list_for_model",
                      retrieve_list_for_model_names(call.arg.table_name, call.arg.column))
    \/ BuildStatement("create", create_names(call.arg.table_name, call.arg.column))
    \/ BuildStatement("batch_create", create_names(call.arg.table_name, call.arg.column))
    \/ BuildStatement("update", update_names(call.arg.table_name, call.arg.column))
    \/ BuildStatement("delete", delete_names(call.arg.table_name))

SpecNames == InitNames /\ [][NextNames]_vars

(***************************************************************************)
(* Service.create and Service.update against any world the application can *)
(* have built (any fields, any dirty set), the store failing or not.       *)
(***************************************************************************)
NextWrite ==
    \/ \E fail \in Fails : \E h \in Hashes : Create(fail, h)
    \/ \E sdm \in BOOLEAN : \E refresh \in BOOLEAN : \E now \in Clock :
         \E fail \in Fails : \E h \in Hashes : Update(sdm, refresh, now, fail, h)

SpecWrite == InitUpdate /\ [][NextWrite]_vars

(***************************************************************************)
(* Lookups by any column: Service.retrieve_by_prop(prop, prop_name,        *)
(* use_cache) on the worlds of the lookups by id.  The SELECT has LIMIT 1   *)
(* and no ORDER BY: of several matching rows the store gives any one.      *)
(***************************************************************************)
\* SELECT columns FROM t WHERE prop_name = prop [AND date_deleted IS NULL]:
\* the rows that match
select_by_prop(d, cls, prop_name, prop) ==
    {row \in {d[table_name(cls)][i] : i \in DOMAIN d[table_name(cls)]} :
       /\ row[prop_name] = prop
       /\ "date_deleted" \in ColSet(cls) => row["date_deleted"] = None}

\* what cursor.fetchone() may return: one of the rows, or None
fetchone(rows) == IF rows = {} THEN {Empty} ELSE rows

\* Service.retrieve_by_prop on the world [db, redis, stmts, cache, result,
\* value]; `result` is the row the cursor gives
Service_retrieve_by_prop(w, cls, prop, prop_name, use_cache, fail, result) ==
    LET cached == IF use_cache THEN get_object(w.redis, cls, prop) ELSE <<>>
        w0 == IF use_cache THEN [w EXCEPT !.cache = <<"get_object">>] ELSE w
        sel == stmt("SELECT", table_name(cls), Empty, prop)
    IN  IF use_cache /\ cached # <<>> THEN [w0 EXCEPT !.value = cached]
        ELSE IF fail = "connect" THEN [w0 EXCEPT !.result = "OperationalError"]
        ELSE IF fail = "execute"
        THEN [w0 EXCEPT !.result = "DatabaseError", !.stmts = <<sel>>]
        ELSE LET m == Model_init(cls, result)
             IN  IF result # Empty
                 THEN IF use_cache
                      THEN [w0 EXCEPT !.stmts = <<sel>>, !.value = <<m>>,
                                      !.redis = set_object(w0.redis, m),
                                      !.cache = Append(w0.cache, "set_object")]
                      ELSE [w0 EXCEPT !.stmts = <<sel>>, !.value = <<m>>]
                 ELSE [w0 EXCEPT !.stmts = <<sel>>]

RetrieveByProp(prop, prop_name, use_cache, fail) ==
    \E result \in fetchone(select_by_prop(db, model.cls, prop_name, prop)) :
        LET w == Service_retrieve_by_prop(ListWorld, model.cls, prop, prop_name,
                                          use_cache, fail, result)
        IN  /\ redis' = w.redis
            /\ call' = [NoCall("retrieve_by_prop") EXCEPT
                          !.arg = [item_id |-> prop, use_cache |-> use_cache,
                                   prop_name |-> prop_name],
                          !.result = w.result, !.value = w.value,
                          !.stmts = w.stmts, !.cache = w.cache]
            /\ UNCHANGED <<model, sets, pure, db, autoinc, buffer,
                           pc, old_hash, watched, hash_of>>

NextProp ==
    \E prop \in Values : \E prop_name \in ColSet(model.cls) :
      \E use_cache \in BOOLEAN : \E fail \in Fails :
        RetrieveByProp(prop, prop_name, use_cache, fail)

SpecProp == InitRetrieve /\ [][NextProp]_vars

(***************************************************************************)
(* The hash index of several records: set_hash and delete_hash, each run   *)
(* to its end by one caller, on records of one table that differ in their  *)
(* id.  The content hash of a record is what the application's             *)
(* `model.hash` gives, the same for two records or not.                    *)
(***************************************************************************)
\* the ids of the records: the ids of the store and two beyond them
IndexIds == 1..(MaxId + 2)

IndexedRecord(id) == Saved("Post", [id |-> id, date_deleted |-> None])

InitIndex ==
    /\ IdleModel
    /\ call = [NoCall("init") EXCEPT !.value = Nil]
    /\ redis = [str |-> Empty, obj |-> Empty]
    /\ IdleStore
    /\ IdleHash

IndexStep(op, id, model_hash, r) ==
    /\ redis' = r
    /\ call' = [NoCall(op) EXCEPT !.arg = id, !.value = model_hash]
    /\ UNCHANGED <<model, sets, pure, db, autoinc, buffer,
                   pc, old_hash, watched, hash_of>>

SetHash(id, model_hash) ==
    IndexStep("set_hash", id, model_hash, set_hash(redis, IndexedRecord(id), model_hash))

DeleteHash(id) ==
    IndexStep("delete_hash", id, Nil, delete_hash(redis, IndexedRecord(id)))

NextIndex ==
    \/ \E id \in IndexIds : \E model_hash \in Hashes : SetHash(id, model_hash)
    \/ \E id \in IndexIds : DeleteHash(id)

SpecIndex == InitIndex /\ [][NextIndex]_vars

(***************************************************************************)
(* Claims about the record                                                 *)
(***************************************************************************)

\* C9: the primary-key field 'id' is never a member of a record's dirty set,
\* after any sequence of Model operations.
C9_IdNeverDirty == "id" \notin model.dirty

\* C10: after keyed sets only, since the record was last clean, modified_dict
\* has exactly the keys those sets touched and maps each to the value of the
\* most recent set of that key; untouched columns do not appear.
C10_ModifiedDictIsLastSets == pure => modified_dict(model) = sets

\* C10 witness: two columns of a three-column record were set, to different
\* values, and the third was left alone.
C10_Witness ==
    /\ pure
    /\ call.op = "setitem" /\ call.result = "ok"
    /\ model.cls = "Note"
    /\ DOMAIN sets = {"title", "body"}
    /\ sets["title"] = 2 /\ sets["body"] = 1
    /\ model.fields["id"] # None

\* C12: the keys of a record's fields are exactly the declared columns of its
\* type, after construction from any dictionary (unknown keys ignored,
\* unsupplied columns None, dirty empty) and after every keyed set, keyed
\* delete, bulk update and id assignment.
C12_FieldsAreColumns ==
    /\ DOMAIN model.fields = ColSet(model.cls)
    /\ call.op = "init" =>
          /\ model.dirty = {}
          /\ \A k \in ColSet(model.cls) :
                model.fields[k] = IF k \in DOMAIN call.arg THEN call.arg[k] ELSE None

\* C12 witness: a three-column record built from a dictionary that has an
\* undeclared key and lacks a declared one.
C12_Witness ==
    /\ call.op = "init" /\ model.cls = "Note"
    /\ DOMAIN call.arg = {"bogus", "body", "id"}
    /\ call.arg["body"] = 2 /\ call.arg["id"] = 1
    /\ model.fields = [id |-> 1, title |-> None, body |-> 2]

\* C13: Model.update(partial_map) sets exactly the fields whose keys are
\* declared columns to the supplied values, drops every other key without
\* raising, leaves the other fields as they were, and makes dirty the union
\* of the previous dirty set and the applied keys.
C13_BulkUpdateAppliesDeclaredKeys ==
    \A d \in Dicts(model.cls) :
        LET after == Model_update(model, d)
            applied == (DOMAIN d) \cap ColSet(model.cls)
        IN  /\ DOMAIN after.fields = DOMAIN model.fields
            /\ \A k \in DOMAIN after.fields :
                  after.fields[k] = IF k \in applied THEN d[k] ELSE model.fields[k]
            /\ after.dirty = model.dirty \cup applied

\* C13 witness: a bulk update has been applied to a record that was already
\* dirty in another column.
C13_Witness ==
    /\ call.op = "bulk_update" /\ call.result = "ok"
    /\ model.cls = "Note"
    /\ model.dirty = {"title", "body"}
    /\ model.fields["title"] = 1 /\ model.fields["body"] = 2
    /\ ~pure /\ DOMAIN sets = {"title"}

\* C14: is_dirty is true exactly when the record's dirty set is non-empty,
\* in every reachable record state.
C14_IsDirtyIffNonEmpty == is_dirty(model) <=> model.dirty # {}

\* C11: keyed get and keyed set fail when the key is not a declared column,
\* keyed set fails on the primary key 'id', every failing call leaves fields
\* and dirty as they were, and a successful keyed set or keyed delete adds
\* its key to dirty.
KeyedReads == {"getitem", "get"}

C11_KeyedAccessChecksColumns ==
    [][/\ (call'.op \in KeyedReads \cup {"setitem"} /\ call'.arg \notin ColSet(model.cls))
            => call'.result = "KeyError"
       /\ (call'.op = "setitem" /\ call'.arg = "id") => call'.result = "KeyError"
       /\ (call'.op \in KeyedReads \cup {"setitem", "delitem"} /\ call'.result # "ok")
            => (model'.fields = model.fields /\ model'.dirty = model.dirty)
       /\ (call'.op \in {"setitem", "delitem"} /\ call'.result = "ok")
            => call'.arg \in model'.dirty]_vars

(***************************************************************************)
(* Claims about Service.create, Service.update and Service.delete          *)
(***************************************************************************)

\* C1: after a successful Service.create(r), whatever set, delete and bulk
\* update calls preceded it, r.dirty is empty and r.id is the id the store
\* issued for the inserted row.  (Both implementations of Service.create.)
C1_CreateCleansAndAssignsId ==
    (call.op \in {"create", "f5_create"} /\ call.result = "ok") =>
        (model.dirty = {} /\ Model_id(model) = call.lastrowid /\ call.lastrowid # None)

\* C2: Service.update on a record whose dirty set is empty executes no
\* statement, writes nothing to the cache, leaves the record, the store and
\* the cache as they were and returns without error.
C2_CleanUpdateIsNoop ==
    [][(call'.op = "update" /\ model.dirty = {}) =>
         /\ call'.result = "ok"
         /\ call'.stmts = <<>> /\ call'.cache = <<>>
         /\ model' = model /\ db' = db /\ autoinc' = autoinc /\ redis' = redis]_vars

\* C2 witness: update has returned from its early exit on a clean record
\* whose row is stored and cached.
C2_Witness ==
    /\ call.op = "update" /\ call.result = "ok" /\ call.stmts = <<>>
    /\ model.dirty = {}
    /\ Model_id(model) \in DOMAIN db[table_name(model.cls)]
    /\ build_key(model) \in DOMAIN redis.obj

C3_DeleteInvalidatesCache ==
    (call.op = "delete" /\ call.result = "ok" /\ call.old_id # None) =>
        LET key == build_key_ns(table_name(model.cls), call.old_id) IN
        /\ key \notin DOMAIN redis.obj
        /\ hash_key_of(key) \notin DOMAIN redis.str
        /\ \A k \in DOMAIN redis.str : redis.str[k] # key
        /\ Model_id(model) = None

(***************************************************************************)
(* Claims about the hash index                                             *)
(***************************************************************************)
Quiescent ==
    /\ \A p \in Procs : pc[p] \in {"idle", "done", "raised"}
    /\ \E p \in Procs : pc[p] # "idle"

ReverseEntries == {k \in DOMAIN redis.str : redis.str[k] = the_obj_key}

\* C4: once all concurrent set_hash calls on a record have completed, under
\* any interleaving, the cache holds exactly one hash key for the record and
\* exactly one reverse entry pointing at it, whose key is the hash key's
\* value; no reverse entry of an earlier hash remains.
C4_OneHashOneReverse ==
    Quiescent =>
        /\ the_hash_key \in DOMAIN redis.str
        /\ ReverseEntries = {redis.str[the_hash_key]}
        /\ DOMAIN redis.str = {the_hash_key, redis.str[the_hash_key]}

\* C4 witness: both callers had a call in flight with different hashes,
\* one lost the race, and the record's hash was replaced by the winner's.
C4_Witness ==
    /\ Quiescent
    /\ pc["p1"] = "done" /\ pc["p2"] = "raised"
    /\ hash_of["p1"] # hash_of["p2"]
    /\ old_hash["p1"] # Nil /\ old_hash["p1"] # hash_of["p1"]
    /\ redis.str[the_hash_key] = hash_of["p1"]

\* C5: when EXEC is aborted because the watched key was written, set_hash
\* goes back to the WATCH step (and so never leaves by raising).
C5_AbortRestartsAtWatch ==
    [][\A p \in Procs :
         (pc[p] = "exec" /\ ~watched[p] /\ pc'[p] # pc[p]) => pc'[p] = "watch"]_vars

\* C28: delete_hash removes the record's hash-key entry and the reverse
\* entry its value names in one atomic step: when a delete_hash completes,
\* whatever set_hash and delete_hash calls ran beside it, neither entry
\* exists, and no state shows one of the two entries without the other.
C28_DeleteHashIsAtomic ==
    /\ [](IF the_hash_key \in DOMAIN redis.str
          THEN ReverseEntries = {redis.str[the_hash_key]}
          ELSE ReverseEntries = {})
    /\ [][\A p \in Procs :
            (pc[p] = "exec" /\ hash_of[p] = Nil /\ pc'[p] = "done") =>
                /\ the_hash_key \notin DOMAIN redis'.str
                /\ \A k \in DOMAIN redis'.str : redis'.str[k] # the_obj_key]_vars

\* C28 witness: a delete_hash has completed and removed the entries that a
\* set_hash of the other caller, run beside it, had written.
C28_Witness ==
    /\ pc["p1"] = "done" /\ hash_of["p1"] = Nil
    /\ pc["p2"] = "done" /\ hash_of["p2"] # Nil
    /\ old_hash["p1"] = hash_of["p2"] /\ old_hash["p2"] # Nil
    /\ redis.str = Empty

(***************************************************************************)
(* Claims about the write buffer                                           *)
(***************************************************************************)
BatchOps == {"flush", "batch_create", "batch_update"}

\* C6: Service.flush is all-or-nothing across the buffered statements: when
\* one of them fails, the store is left with none of the rows that were in
\* the buffer (groups executed earlier in the same flush are not committed).
C6_FailedFlushCommitsNothing ==
    [][(call'.op \in BatchOps /\ call'.result = "DatabaseError") => db' = db]_vars

\* C7: after flush returns or raises, the buffer is always empty.
C7_BufferEmptyAfterFlush == call.op = "flush" => buffer = Empty

\* C8: after any sequence of batch_create, batch_update and flush calls no
\* statement key holds MAX_BUFFER_SIZE or more rows.
C8_NoKeyReachesMax == \A q \in DOMAIN buffer : Len(buffer[q]) < MAX_BUFFER_SIZE

(***************************************************************************)
(* Claims about the join resolver                                          *)
(***************************************************************************)
Resolved == call.op = "retrieve_filtered" /\ call.result = "ok"

\* C15: whenever the join resolver succeeds, the join list is topologically
\* valid: the join for a type comes only after the type it depends on is
\* satisfied, that is, the dependency is the primary type or its own join
\* stands earlier in the list.
C15_JoinsAreTopological ==
    Resolved =>
        \A i \in DOMAIN call.value :
            LET j == call.value[i] IN
            /\ j.target \in DOMAIN call.arg.dependencies
            /\ j.dependency = call.arg.dependencies[j.target]
            /\ \/ j.dependency = model_class
               \/ \E k \in 1..(i - 1) : call.value[k].target = j.dependency

\* C15 witness: {Comment: Post, Post: Blog} with the filters naming Comment
\* first and Post second gives the join for Post before the join for Comment.
C15_Witness ==
    /\ Resolved
    /\ call.arg.filters = <<"Comment", "Post">>
    /\ call.arg.dependencies = [Comment |-> "Post", Post |-> "Blog"]
    /\ call.value = <<[target |-> "Post", dependency |-> "Blog"],
                      [target |-> "Comment", dependency |-> "Post"]>>

\* the types met from t along the dependency edges, within n edges
RECURSIVE Walk(_, _, _)
Walk(deps, t, n) ==
    IF n = 0 \/ t \notin DOMAIN deps THEN {t}
    ELSE {t} \cup Walk(deps, deps[t], n - 1)

\* the types from t up to, and without, the primary type
RECURSIVE Chain(_, _, _)
Chain(deps, t, n) ==
    IF t = model_class \/ n = 0 \/ t \notin DOMAIN deps THEN {}
    ELSE {t} \cup Chain(deps, deps[t], n - 1)

ReachesPrimary(deps, t) == model_class \in Walk(deps, t, Cardinality(JoinTypes))
Acyclic(deps) == \A t \in DOMAIN deps : t \notin Walk(deps, deps[t], Cardinality(JoinTypes))

\* C16: the resolver fails whenever a filter names a type, other than the
\* primary type, with no path to the primary type in the dependency graph,
\* the type with no entry in the graph included; no query is then executed.
C16_NoPathIsAnError ==
    (/\ call.op = "retrieve_filtered"
     /\ \E i \in DOMAIN call.arg.filters :
          ~ReachesPrimary(call.arg.dependencies, call.arg.filters[i]))
    => (call.result = "Exception" /\ call.stmts = <<>>)

\* C17: for every acyclic dependency graph in which each filtered type
\* reaches the primary type through a chain of edges of any length, the
\* resolver succeeds and emits a join for every type on each chain.
C17_EveryChainResolves ==
    (/\ call.op = "retrieve_filtered"
     /\ Acyclic(call.arg.dependencies)
     /\ \A i \in DOMAIN call.arg.filters :
          ReachesPrimary(call.arg.dependencies, call.arg.filters[i]))
    => /\ call.result = "ok"
       /\ \A i \in DOMAIN call.arg.filters :
            \A t \in Chain(call.arg.dependencies, call.arg.filters[i],
                            Cardinality(JoinTypes)) :
                \E k \in DOMAIN call.value : call.value[k].target = t

(***************************************************************************)
(* Claims about lookups by id                                              *)
(***************************************************************************)
\* the cache entry '<table>:<id>' of the Service's type, as fields
CacheEntry(r, id) ==
    LET mapping == redis_hgetall(r, build_key_ns(table_name(model.cls), id))
    IN  [k \in DOMAIN mapping |-> decode(mapping[k])]

\* C18: retrieve_by_id(id, use_cache=True) consults the cache first: when it
\* holds an entry for '<table>:<id>' the record built from the entry is
\* returned and no relational statement is executed; with use_cache=False
\* the cache is neither read nor written.
C18_CacheBeforeStore ==
    [][call'.op = "retrieve_by_id" =>
         LET id == call'.arg.item_id
             key == build_key_ns(table_name(model.cls), id)
         IN  /\ (call'.arg.use_cache /\ key \in DOMAIN redis.obj) =>
                   /\ call'.result = "ok"
                   /\ call'.stmts = <<>>
                   /\ Len(call'.value) = 1
                   /\ call'.value[1].fields = Merge([k \in ColSet(model.cls) |-> None],
                                                    Put(CacheEntry(redis, id), "id", id))
                   /\ call'.value[1].dirty = {}
             /\ ~call'.arg.use_cache => (call'.cache = <<>> /\ redis' = redis)]_vars

\* C18 witness: a lookup was served from a cache entry that differs from the
\* stored row.
C18_Witness ==
    /\ call.op = "retrieve_by_id" /\ call.result = "ok"
    /\ call.arg.use_cache /\ call.arg.item_id = 1
    /\ call.stmts = <<>> /\ call.cache = <<"get_object">>
    /\ model.cls = "Tag"
    /\ call.value = <<[cls |-> "Tag", fields |-> [id |-> 1, date_modified |-> 2], dirty |-> {}]>>
    /\ 1 \in DOMAIN db["tag"] /\ db["tag"][1]["date_modified"] = 1

StoreErrors == {"OperationalError", "DatabaseError"}

\* C19: on a cache miss with use_cache=True, retrieve_by_id queries the
\* store; if a live row is found the returned record equals the row and the
\* cache then holds an entry for the id with the row's non-id fields; if
\* none is found the call returns None, raises nothing and writes nothing
\* to the cache.
C19_MissFallsThroughAndPopulates ==
    [][(/\ call'.op = "retrieve_by_id"
        /\ call'.arg.use_cache
        /\ build_key_ns(table_name(model.cls), call'.arg.item_id) \notin DOMAIN redis.obj
        /\ call'.result \notin StoreErrors) =>
         LET id == call'.arg.item_id
             table == db[table_name(model.cls)]
             found == /\ id \in DOMAIN table
                      /\ "date_deleted" \in ColSet(model.cls) => table[id]["date_deleted"] = None
         IN  /\ call'.result = "ok"
             /\ call'.stmts # <<>>
             /\ IF found
                THEN /\ call'.value = <<Saved(model.cls, table[id])>>
                     /\ CacheEntry(redis', id) = [k \in ColSet(model.cls) \ {"id"} |-> table[id][k]]
                ELSE /\ call'.value = <<>>
                     /\ redis' = redis]_vars

\* C19 witness: a lookup missed the cache, found the row in the store and
\* left it cached.
C19_Witness ==
    /\ call.op = "retrieve_by_id" /\ call.result = "ok"
    /\ call.arg.use_cache /\ call.arg.item_id = 1
    /\ call.cache = <<"get_object", "set_object">>
    /\ Len(call.stmts) = 1
    /\ model.cls = "Tag"
    /\ call.value = <<Saved("Tag", [id |-> 1, date_modified |-> 2])>>
    /\ CacheEntry(redis, 1) = [date_modified |-> 2]

ListOps == {"retrieve_by_id_list", "f5_retrieve_by_id_list"}

\* the first place of an id in a list
FirstIndex(id_list, id) == CHOOSE i \in DOMAIN id_list :
                             id_list[i] = id /\ \A j \in 1..(i - 1) : id_list[j] # id

\* C20: retrieve_by_id_list(ids) returns the found records that are not
\* soft-deleted, in the order in which their ids occur in the caller's list;
\* ids with no matching row are left out without error, and an empty list
\* returns an empty list without issuing any statement.  (Both
\* implementations, the store working.)
C20_ListInCallerOrder ==
    (call.op \in ListOps /\ call.arg.fail = "no") =>
        LET id_list == call.arg.id_list
            table == db[table_name(model.cls)]
            live(id) == /\ id \in DOMAIN table
                        /\ "date_deleted" \in ColSet(model.cls) => table[id]["date_deleted"] = None
            id_at(k) == call.value[k].fields["id"]
        IN  /\ call.result = "ok"
            /\ id_list = <<>> => (call.value = <<>> /\ call.stmts = <<>>)
            /\ \A k \in DOMAIN call.value :
                  /\ id_at(k) \in Range(id_list) /\ live(id_at(k))
                  /\ call.value[k] = Saved(model.cls, table[id_at(k)])
            /\ \A id \in Range(id_list) :
                  live(id) => \E k \in DOMAIN call.value : id_at(k) = id
            /\ \A k1, k2 \in DOMAIN call.value :
                  k1 < k2 => FirstIndex(id_list, id_at(k1)) < FirstIndex(id_list, id_at(k2))

(***************************************************************************)
(* Claims about soft deletion                                              *)
(***************************************************************************)
RetrieveOps == {"retrieve_by_id", "retrieve_for_model"}

SoftDeleted(m) ==
    /\ "date_deleted" \in ColSet(m.cls)
    /\ Model_id(m) \in DOMAIN db[table_name(m.cls)]
    /\ db[table_name(m.cls)][Model_id(m)]["date_deleted"] # None

\* C22: for a record type that declares date_deleted, no retrieve operation
\* of the Service returns a record that has been soft-deleted: once delete
\* has stamped a row's date_deleted, no later retrieve call returns a record
\* of that row.
C22_RetrieveSkipsSoftDeleted ==
    (call.op \in RetrieveOps /\ call.result = "ok") =>
        \A i \in DOMAIN call.value : ~SoftDeleted(call.value[i])

(***************************************************************************)
(* Claims about delete_all                                                 *)
(***************************************************************************)
IdsOf(models) == [i \in DOMAIN models |-> Model_id(models[i])]

\* the statement delete(record) issues: the stamping UPDATE of a type that
\* declares date_deleted, the DELETE of one that does not
IsDeleteOf(st, record) ==
    /\ st.table = table_name(record.cls)
    /\ st.where = Model_id(record)
    /\ IF "date_deleted" \in ColSet(record.cls)
       THEN st.kind = "UPDATE" /\ "date_deleted" \in DOMAIN st.data
       ELSE st.kind = "DELETE"

\* C23: delete_all(records, soft=false) issues exactly one DELETE statement,
\* bound to the ids of all the records given, however many they are and
\* whether or not the type declares date_deleted; with soft=true it performs
\* one delete per record instead.
C23_DeleteAllIsOneStatement ==
    (call.op = "delete_all" /\ call.result # "OperationalError") =>
        IF ~call.arg.date_deleted
        THEN /\ Len(call.stmts) = 1
             /\ call.stmts[1].kind = "DELETE"
             /\ call.stmts[1].table = table_name(model.cls)
             /\ call.stmts[1].where = IdsOf(call.arg.models)
        ELSE call.result = "ok" =>
               /\ Len(call.stmts) = Len(call.arg.models)
               /\ \A i \in DOMAIN call.stmts : IsDeleteOf(call.stmts[i], call.arg.models[i])

\* C23 witness: a hard delete_all of several records of a type that
\* declares date_deleted has issued its one DELETE and the table has no row.
C23_Witness ==
    /\ call.op = "delete_all" /\ call.result = "ok" /\ ~call.arg.date_deleted
    /\ Len(call.arg.models) = MaxList
    /\ "date_deleted" \in ColSet(model.cls)
    /\ Len(call.stmts) = 1
    /\ db[table_name(model.cls)] = Empty
    /\ \E i \in DOMAIN call.arg.models : Model_id(call.arg.models[i]) # None

\* C40: after delete_all(records, soft=false) has returned, the cache holds
\* no primary-key entry and no hash-key entry for any id the records had
\* before the call: a lookup of such an id in the cache finds nothing.
C40_DeleteAllPurgesTheCache ==
    (call.op = "delete_all" /\ ~call.arg.date_deleted /\ call.result = "ok") =>
        \A i \in DOMAIN call.arg.models :
            LET id == Model_id(call.arg.models[i])
                key == build_key_ns(table_name(model.cls), id)
            IN  id # None =>
                  /\ get_object(redis, model.cls, id) = <<>>
                  /\ key \notin DOMAIN redis.obj
                  /\ redis_get(redis, hash_key_of(key)) = Nil

(***************************************************************************)
(* Claims about connections                                                *)
(***************************************************************************)
\* C24: every relational connection a Service operation opens is closed when
\* the operation ends, on every exit path: once a call has returned or
\* raised, a failing execute inside create, update, delete or flush
\* included, it holds no open connection.
C24_ConnectionsAreReleased ==
    (\A p \in Procs : Ended(p)) => call.value.open = 0

\* C24 witness: a flush has raised from a failing execute after committing an
\* earlier query, and its connection is closed.
C24_Witness ==
    /\ \E p \in Procs : pc[p] = "raised"
    /\ call.op = "flush" /\ call.result = "DatabaseError"
    /\ call.stmts = <<"execute", "commit", "execute", "rollback">>
    /\ call.value._conn = "closed" /\ call.value.open = 0

Mutations == {"commit", "rollback"}

\* C25: on a connection opened in 'read' mode every commit or rollback fails
\* with an error and changes nothing, while one opened in 'write' mode permits
\* both; and no Service operation that uses the 'mysql_read' datastore
\* invokes commit or rollback.
C25_ReadModeRejectsMutation ==
    /\ [][(Len(call'.stmts) = Len(call.stmts) + 1
           /\ call'.stmts[Len(call'.stmts)] \in Mutations) =>
            IF call.value._mode = "read"
            THEN /\ call'.result = "NotImplementedError"
                 /\ call'.value = call.value
            ELSE /\ call'.result = call.result
                 /\ call'.value.pending = 0
                 /\ call'.value._conn = "open"]_vars
    /\ [](call.op \in ReadOps \cup WriteOps /\ call.arg.datastore = "mysql_read" =>
            \A i \in DOMAIN call.stmts : call.stmts[i] \notin Mutations)

\* C25 witness: a commit on a read connection has raised and left the
\* executed statement pending.
C25_Witness ==
    /\ call.value._mode = "read" /\ call.result = "NotImplementedError"
    /\ call.stmts = <<"execute", "commit">> /\ call.value.pending = 1
    /\ call.value._conn = "open"

(***************************************************************************)
(* Claims about identifiers                                                *)
(***************************************************************************)
IsIdentifier(s) ==
    /\ Len(s) > 0
    /\ s[1] \in {"a", "_"}
    /\ \A j \in 2..Len(s) : s[j] \in {"a", "_", "7"}

\* C26: match_identifier(s) returns s exactly when s is a non-empty string
\* whose first character is a letter or underscore and whose other characters
\* are letters, digits or underscores, and a falsy value for every other
\* string, in every Service implementation of the repository.
C26_MatchIdentifier ==
    call.op \in {"match_identifier", "f5_match_identifier"} =>
        call.value = IF IsIdentifier(call.arg) THEN call.arg ELSE <<>>

(***************************************************************************)
(* Claims about associations                                               *)
(***************************************************************************)
Mismatched(extra, items) ==
    \E k \in DOMAIN extra : extra[k].is_list /\ Len(extra[k].vals) # Len(items)

\* the row of item i: the two link ids, then each extra column's value for
\* the item, a scalar standing for every item
AssocRow(base_id, items, extra, i) ==
    [link |-> <<base_id, items[i]>>,
     extra |-> [k \in DOMAIN extra |->
                  IF extra[k].is_list THEN extra[k].vals[i] ELSE extra[k].vals[1]]]

\* C27: model_assoc_items(base, items, **extra) fails with a validation
\* error, before any statement is executed and without changing the store,
\* whenever an extra value given as a list has a length other than the number
\* of items; otherwise it inserts one row per item, an extra value given as a
\* scalar being broadcast to every row.
C27_AssocValidatesExtraLengths ==
    call.op = "model_assoc_items" =>
        IF Mismatched(call.arg.extra, call.arg.items)
        THEN call.result = "ValueError" /\ call.stmts = <<>>
        ELSE call.arg.items # <<>> =>
               /\ call.result = "ok"
               /\ Len(call.stmts) = 1
               /\ call.stmts[1].kind = "INSERT"
               /\ call.stmts[1].data =
                    [i \in DOMAIN call.arg.items |->
                       AssocRow(call.arg.base_id, call.arg.items, call.arg.extra, i)]

(***************************************************************************)
(* Claims about cache coherence                                            *)
(***************************************************************************)
\* C29: whenever the cache holds a primary-key entry for a record id, the
\* entry's fields equal the current row of the store for that id, after any
\* sequence and interleaving of calls: updates from separately retrieved
\* copies of a row and a read-through retrieve_by_id racing with an update
\* included.
C29_CacheEqualsStore ==
    \A id \in Ids :
        LET table == table_name(model.cls)
            entry == CacheEntry(redis, id)
        IN  build_key_ns(table, id) \in DOMAIN redis.obj =>
              /\ id \in DOMAIN db[table]
              /\ \A k \in DOMAIN entry : entry[k] = db[table][id][k]

(***************************************************************************)
(* Claims about the WHERE clause                                           *)
(***************************************************************************)
\* the comparisons a filter list asks for, left to right: an 'and' filter
\* asks for its two, one after the other
RECURSIVE Asked(_)
Asked(filters) ==
    IF filters = <<>> THEN <<>>
    ELSE [i \in 1..Len(Head(filters).halves) |->
            [cls |-> Head(filters).cls, field |-> Head(filters).field,
             vals |-> Head(filters).halves[i].vals]]
         \o Asked(Tail(filters))

RECURSIVE BindValues(_)
BindValues(asked) == IF asked = <<>> THEN <<>> ELSE Head(asked).vals \o BindValues(Tail(asked))

RECURSIVE Placeholders(_)
Placeholders(where_clauses) ==
    IF where_clauses = <<>> THEN 0
    ELSE Head(where_clauses).placeholders + Placeholders(Tail(where_clauses))

\* C30: in the WHERE clause of retrieve_filtered an 'and' filter becomes two
\* adjacent predicates on the same table and column; the statement has as
\* many %s as the bind tuple has values, and the values stand in the order
\* of the placeholders: one per element of a list value, one per other
\* value, limit and offset last when bounds are given and count_only is
\* false.
C30_BindValuesFollowPlaceholders ==
    call.op = "retrieve_filtered" =>
        LET query == call.value
            asked == Asked(call.arg.filters)
            limited == call.arg.bounds # <<>> /\ ~call.arg.count_only
        IN  /\ Len(query.where_clauses) = Len(asked)
            /\ \A j \in DOMAIN asked :
                 /\ query.where_clauses[j].table = asked[j].cls
                 /\ query.where_clauses[j].field = asked[j].field
                 /\ query.where_clauses[j].placeholders = Len(asked[j].vals)
            /\ query.limit = limited
            /\ Placeholders(query.where_clauses) + (IF query.limit THEN 2 ELSE 0)
                 = Len(query.vals)
            /\ query.vals = BindValues(asked) \o (IF limited THEN call.arg.bounds ELSE <<>>)

\* C30 witness: an 'and' filter with a list half, followed by a filter on
\* another table, was rendered with bounds.
C30_Witness ==
    /\ call.op = "retrieve_filtered"
    /\ Len(call.arg.filters) = 2
    /\ Len(call.arg.filters[1].halves) = 2
    /\ call.arg.filters[1].halves[2].is_tuple
    /\ call.arg.filters[2].cls # call.arg.filters[1].cls
    /\ call.value.limit
    /\ Len(call.value.where_clauses) = 3
    /\ Len(call.value.vals) >= 6

(***************************************************************************)
(* Claims about LIKE patterns                                              *)
(***************************************************************************)
\* the text of a string value once its punctuation is removed and its
\* wildcards escaped
LikeText(val) == sanitize(val)

\* the pattern its anchors ask for
AnchoredPattern(text) ==
    LET n == Len(text)
        head == n > 0 /\ text[1] = "^"
        tail == n > 0 /\ text[n] = "$"
    IN  IF head /\ tail /\ n > 1 THEN SubSeq(text, 2, n - 1)
        ELSE IF head THEN SubSeq(text, 2, n) \o <<"%">>
        ELSE IF tail THEN <<"%">> \o SubSeq(text, 1, n - 1)
        ELSE <<"%">> \o text \o <<"%">>

\* C31: decode_filter_exp maps every string value to a LIKE pattern by its
\* anchors ('^X$' to X, '^X' to X%, 'X$' to %X, X to %X%), the anchors
\* stripped, for every string: the empty string and strings that become
\* empty once punctuation is removed included.
C31_LikePatternByAnchors ==
    call.op = "decode_filter_exp" =>
        /\ call.result = "ok"
        /\ call.value = AnchoredPattern(LikeText(call.arg))

(***************************************************************************)
(* Claims about identifiers in statement text                              *)
(***************************************************************************)
ValidatedOps == {"count", "retrieve_by_prop", "update", "delete"}

ReportingOps == {"create", "update", "batch_create", "retrieve_list_for_model"}

\* the names an executed statement holds
Interpolated == {call.stmts[i][j] : <<i, j>> \in
                   UNION {{<<i, j>> : j \in 1..Len(call.stmts[i])} :
                            i \in 1..Len(call.stmts)}}

\* C32: every table or column name that count, retrieve_by_prop, update or
\* delete interpolates into an executed statement is one that
\* match_identifier accepts.
C32_InterpolatedNamesAreValidated ==
    call.op \in ValidatedOps =>
        \A name \in Interpolated :
            name.how = "raw" => IsIdentifier(name.text)

\* C33: a name rejected by match_identifier while create, update,
\* batch_create or retrieve_list_for_model builds its statement is reported
\* as an error and no statement is executed; the text never holds an empty
\* string or another value in its place.
C33_MalformedNameIsReported ==
    (call.op \in ReportingOps /\
     \E i \in 1..Len(call.value) :
        call.value[i].how # "raw" /\ match_identifier(call.value[i].identifier) = <<>>)
        => (call.result # "ok" /\ call.stmts = <<>>)

(***************************************************************************)
(* Claims about the statements of create and update                        *)
(***************************************************************************)
\* the declared fields of the record that hold a value, the primary key aside
BoundFields(m) == {k \in DOMAIN m.fields \ {"id"} : m.fields[k] # None}

\* C34: the INSERT of Service.create(r) names and binds exactly the declared
\* fields of r whose value is not None, the primary key excluded.
C34_InsertNamesSetFields ==
    (call.op = "create" /\ call.stmts # <<>>) =>
        /\ DOMAIN call.stmts[1].data = BoundFields(model)
        /\ \A k \in BoundFields(model) : call.stmts[1].data[k] = model.fields[k]

\* C38: when the relational store fails while Service.update(r) or
\* Service.create(r) executes its statement, the error reaches the caller,
\* the cache is not written, r.id is unchanged and r.dirty still holds every
\* field that was dirty before the call.
C38_FailedWriteKeepsRecord ==
    [][(call'.op \in {"create", "update"} /\ call'.result \in StoreErrors) =>
          /\ redis' = redis
          /\ call'.cache = <<>>
          /\ Model_id(model') = Model_id(model)
          /\ model.dirty \subseteq model'.dirty
          /\ \A k \in model.dirty : k \in DOMAIN modified_dict(model')]_vars

\* an update of a record with dirty fields has met a failing statement
C38_Witness ==
    /\ call.op = "update"
    /\ call.result = "DatabaseError"
    /\ Len(call.stmts) = 1
    /\ Cardinality(model.dirty) >= 2

(***************************************************************************)
(* Claims about the caller's filter list                                   *)
(***************************************************************************)
\* C35: retrieve_filtered leaves the list passed as `filters` as it was: the
\* same length and the same elements in the same order, 'and' filters
\* included, so that a count_filtered of the same list afterwards builds the
\* same predicates.
C35_FilterListIsUnchanged ==
    call.op = "retrieve_filtered" =>
        /\ call.value.filters = call.arg.filters
        /\ build_filtered_query(call.value.filters, <<>>, TRUE).where_clauses
             = call.value.where_clauses

(***************************************************************************)
(* Claims about lookups by any column                                      *)
(***************************************************************************)
\* C36: retrieve_by_prop(value, column, use_cache=true) returns, for any
\* column, nothing or a record whose `column` field equals `value`; the
\* cache never gives the record whose id equals `value` in its place.
C36_RetrievedRecordHasTheValue ==
    (call.op = "retrieve_by_prop" /\ call.arg.use_cache /\ call.result = "ok") =>
        \/ call.value = <<>>
        \/ Model_getitem(call.value[1], call.arg.prop_name) = call.arg.item_id

(***************************************************************************)
(* Claims about the hash index of several records                          *)
(***************************************************************************)
\* C37: under any sequence of set_hash and delete_hash calls on records that
\* may carry the same content hash, whenever the hash-key entry of a record
\* exists with value h the reverse entry h exists: a delete_hash of one
\* record never removes the reverse entry that points to another.
C37_HashIndexStaysConsistent ==
    \A id \in IndexIds :
        LET h == redis_get(redis, hash_key_of(build_key(IndexedRecord(id))))
        IN  h # Nil => redis_get(redis, h) # Nil

(***************************************************************************)
(* Claims about the end of the join resolver's loop                        *)
(***************************************************************************)
\* the entries of `pending` the resolver went through on the call's arguments
StepsTaken == build_join_clause(call.arg.dependencies, call.arg.filters).steps

\* each filter is gone through once and brings at most its dependency and
\* itself back; a dependency that brings entries of its own is followed by
\* the target met for the second time, where the loop raises
StepBound == 3 * Len(call.arg.filters)

\* C39: for every dependency graph and every filter list, graphs with cycles
\* and self-dependencies included, the resolver's loop ends: it returns a
\* join list or raises the unsatisfiable-dependency error within a number of
\* steps bounded by the length of the filter list; in the returned list each
\* type is the join target at most once and the primary type never is.
C39_ResolverTerminates ==
    call.op = "retrieve_filtered" =>
        /\ call.result \in {"ok", "Exception"}
        /\ StepsTaken <= StepBound
        /\ call.result = "ok" =>
             /\ \A j, k \in DOMAIN call.value :
                  call.value[j].target = call.value[k].target => j = k
             /\ \A k \in DOMAIN call.value : call.value[k].target # model_class

\* the resolver has returned joins for a list that names a type twice, under
\* a graph with a self-dependency and a cycle
C39_Witness ==
    /\ call.op = "retrieve_filtered"
    /\ call.result = "ok"
    /\ Len(call.value) = 1
    /\ Len(call.arg.filters) = 2
    /\ call.arg.filters[1] = call.arg.filters[2]
    /\ \E t \in DOMAIN call.arg.dependencies : call.arg.dependencies[t] = t
    /\ \E t, u \in DOMAIN call.arg.dependencies :
         t # u /\ call.arg.dependencies[t] = u /\ call.arg.dependencies[u] = t

====
